---- MODULE Spec2Model ----
(***************************************************************************)
(* mdpypipe: the continuation-passing Pipeline / PipeCursor sequencer, the *)
(* job ledger (Database) and the routines that run on top of them          *)
(* (topology_save_routine, run_routine, remote_run_routine,                *)
(* check_runs_routine, watch_queue_routine, download_finished), modelled   *)
(* as one sequential state machine.                                        *)
(*                                                                         *)
(* The interpreter state is an explicit Python call stack: one frame per   *)
(* step whose __call__ is active.  A step body is one action; invoking a   *)
(* cursor, returning and propagating an exception are actions of their own.*)
(***************************************************************************)
EXTENDS Integers, Sequences, FiniteSets, TLC

VARIABLES
    queue,          \* Pipeline.queue of the top-level pipeline
    stack,          \* active step invocations, innermost last
    ctl,            \* what the interpreter does next
    cur,            \* PipeCursor.queue of the cursor being invoked
    arg,            \* the context object handed to the cursor being invoked
    exc,            \* the exception in flight (NoExc when none)
    raised,         \* the exception as first raised by a step (NoExc when none)
    steps_history,  \* the context's log of executed steps
    database,       \* Database.database: the main table
    tmp_database,   \* Database.tmp_database: the staging table
    disk,           \* the table pickled at Database.database_path
    last,           \* the last Database call: what it was given, what it saw
    env,            \* EnvironmentConfig: PROJECT_NAME, SOFTWARE
    slurm,          \* SlurmConfig: present, PID
    sim,            \* SimulationMenager: run and topol configs, current ones
    process,        \* the CompletedProcess of the last remote command
    wq,             \* watch_queue_routine: what its polling loop has done
    data_dir,       \* the followed files of the data directory: name -> content
    renames,        \* the os.rename calls of make_duplicate, in order
    run_ledgers,    \* the main table as each run_routine found and left it
    dirs,           \* the paths that exist under the search directories
    mdcontext,      \* MDContext.__init__: how far it has come, what it holds
    parser          \* Parser: the config file, config_data, what it returned

vars == <<queue, stack, ctl, cur, arg, exc, raised, steps_history, database,
          tmp_database, disk, last, env, slurm, sim, process, wq,
          data_dir, renames, run_ledgers, dirs, mdcontext, parser>>

dbVars == <<database, tmp_database, disk, last>>
fsVars == <<data_dir, renames, run_ledgers>>
machineVars == <<queue, stack, ctl, cur, arg, exc, raised, steps_history>>
buildVars == <<dirs, mdcontext, parser>>
ctxVars == <<env, buildVars, slurm, sim, process, wq, fsVars>>

----------------------------------------------------------------------------
(* Bounds of the model *)

\* longest pipeline of file-level steps enumerated by SpecPipeline
MaxSteps == 4
\* status queries one watch_queue_routine call may issue
MaxPolls == 2
\* rows the ledger may hold in SpecLedger
MaxRows == 2
\* largest NRUNS of a run config
MaxNRuns == 2
\* log files check_runs_routine may find in the data directory
MaxLogs == 1
\* backups make_duplicate may leave of one file
MaxBackups == 3
\* the [TOPOL] sections of a config file
MaxTopols == 2
\* the largest INDEX a [TOPOL] section carries
MaxIndex == 3
\* the sections of the config file a campaign needs
MaxSections == 5

----------------------------------------------------------------------------
(* The context once MDContext.from_config has returned it: the parser and  *)
(* the constructor are done and play no part in the pipeline               *)

NoContext == [at |-> "constructed"]
NoParser == [at |-> "returned"]

NoBuild ==
    /\ dirs = {}
    /\ mdcontext = NoContext
    /\ parser = NoParser

----------------------------------------------------------------------------
(* Values *)

Projects == {"demo", "other"}
SimTypes == {"eq", "md"}
Softwares == {"amber", "gromacs", "namd"}
JobIds == {"101", "102"}

NoExc == [type |-> "none", level |-> 0, pos |-> 0]
TheContext == "context"

\* f"{self.number}-{self.sim_type}": the pair is the formatted name (the
\* number holds no hyphen, so the formatting is injective)
SimulationName(number, sim_type) == <<number, sim_type>>

\* A file name is the sequence of its parts: "md.run" is <<"md", ".run">>.
\* str(n) for the numbers file names are built from
Str(n) == <<"0", "1", "2", "3", "4", "5", "6", "7", "8", "9">>[n + 1]

\* WriteCoordinates._file_extention, for the software a config is written for
PositionExt(software) == IF software = "gromacs" THEN ".gro" ELSE ".rst7"

\* the coordinates supplied with the campaign: init.rst7 / init.gro
StartCoordinates(software) == <<"init", PositionExt(software)>>

\* the coordinates a run leaves: f"{self.simulation_name}.rst7" of the
\* amber command, the .gro of mdrun -deffnm
OutputCoordinates(simulation_name, software) ==
    <<Str(simulation_name[1]), "-", simulation_name[2], PositionExt(software)>>

\* the sequences over S of length up to n
RECURSIVE SeqsUpTo(_, _)
SeqsUpTo(S, n) ==
    IF n = 0 THEN {<<>>}
    ELSE LET shorter == SeqsUpTo(S, n - 1)
         IN  shorter \cup {Append(q, x) : q \in shorter, x \in S}

----------------------------------------------------------------------------
(* Database: a pandas DataFrame is a sequence of rows, each carrying its   *)
(* index label in the field "index".                                       *)

Columns == {"PROJECT NAME", "SIMULATION NAME", "COORDINATE FILE", "CONFIG FILE",
            "STAGE", "REMOTE ADRESS", "REMOTE DIR", "LUSTRE DIR", "PID"}

\* _get_mask: the conjunction of the equality masks of the query
GetMask(row, query) == \A key \in DOMAIN query : row[key] = query[key]

\* find_entries stopping at the first selected row
RECURSIVE FindEntriesFirstOnly(_, _)
FindEntriesFirstOnly(table, query) ==
    IF table = <<>> THEN <<>>
    ELSE IF GetMask(Head(table), query) THEN <<Head(table)>>
    ELSE FindEntriesFirstOnly(Tail(table), query)

\* find_entries: the rows selected by the mask, in table order
RECURSIVE FindEntries(_, _)
FindEntries(table, query) ==
    IF table = <<>> THEN <<>>
    ELSE IF GetMask(Head(table), query)
         THEN <<Head(table)>> \o FindEntries(Tail(table), query)
         ELSE FindEntries(Tail(table), query)

\* modify_entry without the mask: database.loc[:, column] = value
ModifyEntryEveryRow(table, column, value, query) ==
    [i \in DOMAIN table |-> [table[i] EXCEPT ![column] = value]]

\* modify_entry: database.loc[mask, column] = value
ModifyEntry(table, column, value, query) ==
    [i \in DOMAIN table |->
        IF GetMask(table[i], query)
        THEN [table[i] EXCEPT ![column] = value]
        ELSE table[i]]

\* database.loc[index] = row appending whatever the labels are
LocSetAppending(table, row) == Append(table, row)

\* database.loc[index] = row: overwrite the row labelled index, or append
LocSet(table, row) ==
    IF \E i \in DOMAIN table : table[i].index = row.index
    THEN [i \in DOMAIN table |->
            IF table[i].index = row.index THEN row ELSE table[i]]
    ELSE Append(table, row)

\* save, first loop: every staged row is written into the main table
RECURSIVE Flush(_, _)
Flush(table, staged) ==
    IF staged = <<>> THEN table
    ELSE Flush(LocSet(table, Head(staged)), Tail(staged))

\* save that appends the staged rows and keeps them staged
SaveKeepingStaged(db) ==
    LET main == db.database \o db.tmp_database
    IN  [database |-> main, tmp_database |-> db.tmp_database, disk |-> main]

\* save: the three tables after the call
Save(db) ==
    LET main == Flush(db.database, db.tmp_database)
    IN  [database |-> main, tmp_database |-> <<>>, disk |-> main]

\* add_entry without its save: the entry stays in the staging table
DatabaseAddEntryStagedOnly(db, index, entry_dict) ==
    [db EXCEPT !.tmp_database =
        Append(db.tmp_database, [entry_dict EXCEPT !.index = index])]

\* Database.add_entry: stage the entry under the index, then save
DatabaseAddEntry(db, index, entry_dict) ==
    LET entry_df == [entry_dict EXCEPT !.index = index]
    IN  Save([db EXCEPT !.tmp_database = Append(db.tmp_database, entry_df)])

\* get_last_index reading the first label instead of the last
GetLastIndexOfFirstRow(table) ==
    IF table = <<>> THEN 1 ELSE table[1].index

\* DatabaseMenager.get_last_index
GetLastIndex(table) ==
    IF table = <<>> THEN 1 ELSE table[Len(table)].index

\* find_index without the lookup: always a new index
FindIndexAlwaysNew(table, project_name, simulation_name) ==
    [ok |-> TRUE, index |-> GetLastIndex(table) + 1]

\* MDContext.find_index: ok = FALSE stands for the ValueError
FindIndex(table, project_name, simulation_name) ==
    LET query == ("PROJECT NAME" :> project_name)
                 @@ ("SIMULATION NAME" :> simulation_name)
        found_run == FindEntries(table, query)
    IN  IF found_run = <<>>
        THEN [ok |-> TRUE, index |-> GetLastIndex(table) + 1]
        ELSE IF Len(found_run) > 1
        THEN [ok |-> FALSE, index |-> 0]
        ELSE [ok |-> TRUE, index |-> found_run[1].index]

\* MDContext.add_entry taking the remote fields of a Slurm config whether
\* or not there is one
NewEntryAsSubmitted(e, s, current_run, simulation_name) ==
    ("index" :> 0)
    @@ ("PROJECT NAME" :> e.PROJECT_NAME)
    @@ ("SIMULATION NAME" :> simulation_name)
    @@ ("COORDINATE FILE" :> current_run.START_COORDINATES_FILE)
    @@ ("CONFIG FILE" :> current_run.CONFIG_FILE)
    @@ ("STAGE" :> "Unfinished")
    @@ ("REMOTE ADRESS" :> "remote")
    @@ ("REMOTE DIR" :> "remote_dir")
    @@ ("LUSTRE DIR" :> "lustre_dir")
    @@ ("PID" :> s.PID)

\* MDContext.add_entry / DatabaseMenager.add_entry: the new row (the index
\* label is set by Database.add_entry)
NewEntry(e, s, current_run, simulation_name) ==
    ("index" :> 0)
    @@ ("PROJECT NAME" :> e.PROJECT_NAME)
    @@ ("SIMULATION NAME" :> simulation_name)
    @@ ("COORDINATE FILE" :> current_run.START_COORDINATES_FILE)
    @@ ("CONFIG FILE" :> current_run.CONFIG_FILE)
    @@ ("STAGE" :> "Unfinished")
    @@ ("REMOTE ADRESS" :> IF s.present THEN "remote" ELSE "None")
    @@ ("REMOTE DIR" :> IF s.present THEN "remote_dir" ELSE "None")
    @@ ("LUSTRE DIR" :> IF s.present THEN "lustre_dir" ELSE "None")
    @@ ("PID" :> IF s.present THEN s.PID ELSE "-1")

----------------------------------------------------------------------------
(* EnvironmentMenager: the data directory and make_duplicate *)

MdRun == <<"md", ".run">>
MdSlurm == <<"md", ".slurm">>
RunTop == <<"run", ".top">>

\* f"{str(file)}.bck{ndup}"
DuplicatePath(file, ndup) == file \o <<".bck", Str(ndup)>>

\* duplicate.startswith(file.name)
StartsWith(duplicate, file) ==
    /\ Len(file) <= Len(duplicate)
    /\ SubSeq(duplicate, 1, Len(file)) = file

\* make_duplicate, the count over os.listdir(self.data_dir)
Ndup(dir, file) ==
    Cardinality({duplicate \in DOMAIN dir : StartsWith(duplicate, file)})

\* os.rename(src, dst): dst takes the content of src, replacing what it held
Rename(dir, src, dst) ==
    [f \in (DOMAIN dir \ {src}) \cup {dst} |->
        IF f = dst THEN dir[src] ELSE dir[f]]

\* make_duplicate numbering the backup one below the count
MakeDuplicateFromZero(dir, hist, file) ==
    LET ndup == Ndup(dir, file)
        duplicate_path == IF ndup = 1 THEN file \o <<".bck", "0">>
                          ELSE DuplicatePath(file, ndup - 1)
    IN  IF ndup = 0 THEN [dir |-> dir, hist |-> hist]
        ELSE [dir |-> Rename(dir, file, duplicate_path),
              hist |-> Append(hist, [src |-> file, dst |-> duplicate_path,
                                     existed |-> duplicate_path \in DOMAIN dir])]

\* make_duplicate of a file that exists: the directory and the log of
\* renames after the call
MakeDuplicate(dir, hist, file) ==
    LET ndup == Ndup(dir, file)
        duplicate_path == DuplicatePath(file, ndup)
    IN  IF ndup = 0 THEN [dir |-> dir, hist |-> hist]
        ELSE [dir |-> Rename(dir, file, duplicate_path),
              hist |-> Append(hist, [src |-> file, dst |-> duplicate_path,
                                     existed |-> duplicate_path \in DOMAIN dir])]

\* "if file.exists(): make_duplicate(file)", as every caller has it
SetAside(dir, hist, file) ==
    IF file \in DOMAIN dir THEN MakeDuplicate(dir, hist, file)
    ELSE [dir |-> dir, hist |-> hist]

\* open(file, "a").write(text): the text is appended, the file created
\* when it is missing
AppendTo(dir, file, text) ==
    IF file \in DOMAIN dir
    THEN [dir EXCEPT ![file] = @ \o text]
    ELSE [f \in DOMAIN dir \cup {file} |->
            IF f = file THEN text ELSE dir[f]]

\* open(file, "w").write(text): the file holds the text and nothing else
WriteFile(dir, file, text) ==
    [f \in DOMAIN dir \cup {file} |-> IF f = file THEN text ELSE dir[f]]

\* the directory without files
NoFiles == [f \in {} |-> <<>>]

----------------------------------------------------------------------------
(* Pipeline / PipeCursor: the interpreter *)

Step(kind, a) == [kind |-> kind, a |-> a]

Top == stack[Len(stack)]
Pop == SubSeq(stack, 1, Len(stack) - 1)
SetPhase(phase) == [stack EXCEPT ![Len(stack)].phase = phase]

\* a step body appends itself to the context's history
Logged(f) == Append(steps_history,
                [kind |-> f.step.kind, level |-> f.level, pos |-> f.pos,
                 context |-> f.context])

\* Pipeline.__call__: a cursor over the whole queue, called with the context
PipelineCall ==
    /\ ctl = "idle"
    /\ ctl' = "call"
    /\ cur' = [queue |-> queue, level |-> 0, pos |-> 1]
    /\ arg' = TheContext
    /\ UNCHANGED <<queue, stack, exc, raised, steps_history>>
    /\ UNCHANGED <<dbVars, ctxVars>>

\* PipeCursor.__call__ on an empty queue: return None
CursorEmpty ==
    /\ ctl = "call"
    /\ cur.queue = <<>>
    /\ ctl' = "ret"
    /\ UNCHANGED <<queue, stack, cur, arg, exc, raised, steps_history>>
    /\ UNCHANGED <<dbVars, ctxVars>>

\* PipeCursor.__call__: current_step(context, PipeCursor(self.queue[1:]))
CursorStep ==
    /\ ctl = "call"
    /\ cur.queue # <<>>
    /\ stack' = Append(stack,
            [step |-> Head(cur.queue), rest |-> Tail(cur.queue),
             phase |-> "body", level |-> cur.level, pos |-> cur.pos,
             context |-> arg])
    /\ ctl' = "body"
    /\ UNCHANGED <<queue, cur, arg, exc, raised, steps_history>>
    /\ UNCHANGED <<dbVars, ctxVars>>

\* next_step handing over a cursor that has dropped one more step
CallNextSkipping ==
    /\ ctl' = "call"
    /\ cur' = [queue |-> IF Top.rest = <<>> THEN <<>> ELSE Tail(Top.rest),
               level |-> Top.level, pos |-> Top.pos + 1]
    /\ arg' = Top.context
    /\ stack' = SetPhase("wait_next")
    /\ UNCHANGED <<exc, raised>>

\* next_step(context) in the body of the innermost step
CallNext ==
    /\ ctl' = "call"
    /\ cur' = [queue |-> Top.rest, level |-> Top.level, pos |-> Top.pos + 1]
    /\ arg' = Top.context
    /\ stack' = SetPhase("wait_next")
    /\ UNCHANGED <<exc, raised>>

\* Pipeline(*jobs)(context) in the body of the innermost step
CallSub(jobs, phase) ==
    /\ ctl' = "call"
    /\ cur' = [queue |-> jobs, level |-> Top.level + 1, pos |-> 1]
    /\ arg' = Top.context
    /\ stack' = SetPhase(phase)
    /\ UNCHANGED <<exc, raised>>

\* the innermost step returns
Return ==
    /\ ctl' = "ret"
    /\ stack' = Pop
    /\ UNCHANGED <<cur, arg, exc, raised>>

\* the innermost step raises
Raise(type) ==
    /\ ctl' = "exc"
    /\ exc' = [type |-> type, level |-> Top.level, pos |-> Top.pos]
    /\ raised' = IF raised = NoExc THEN exc' ELSE raised
    /\ stack' = Pop
    /\ UNCHANGED <<cur, arg>>

\* the body of the innermost step starts: it logs itself on the context
Body(kind) ==
    /\ ctl = "body"
    /\ stack # <<>>
    /\ Top.step.kind = kind
    /\ Top.phase = "body"
    /\ steps_history' = Logged(Top)
    /\ UNCHANGED queue

\* the innermost step is back in control after a sub-pipeline returned
Resumed(kind, phase) ==
    /\ ctl = "ret"
    /\ stack # <<>>
    /\ Top.step.kind = kind
    /\ Top.phase = phase
    /\ UNCHANGED <<queue, steps_history>>

\* a step whose call of next_step has returned returns itself
StepReturn ==
    /\ ctl = "ret"
    /\ stack # <<>>
    /\ Top.phase = "wait_next"
    /\ stack' = Pop
    /\ UNCHANGED <<queue, ctl, cur, arg, exc, raised, steps_history>>
    /\ UNCHANGED <<dbVars, ctxVars>>

\* the steps that call next_step inside try ... except Exception: raise IOError
Wrapping == {"WriteParameters", "WriteCoordinates"}

\* an exception leaves the innermost frame
Propagate ==
    /\ ctl = "exc"
    /\ stack # <<>>
    /\ exc' = IF Top.step.kind \in Wrapping /\ Top.phase = "wait_next"
                 /\ exc.type # "SystemExit"
              THEN [type |-> "IOError", level |-> Top.level, pos |-> Top.pos]
              ELSE exc
    /\ stack' = Pop
    /\ UNCHANGED <<queue, ctl, cur, arg, raised, steps_history>>
    /\ UNCHANGED <<dbVars, ctxVars>>

\* the Pipeline call returns to its caller
PipelineReturn ==
    /\ ctl = "ret"
    /\ stack = <<>>
    /\ ctl' = "returned"
    /\ UNCHANGED <<queue, stack, cur, arg, exc, raised, steps_history>>
    /\ UNCHANGED <<dbVars, ctxVars>>

\* the exception leaves the Pipeline call
PipelineRaise ==
    /\ ctl = "exc"
    /\ stack = <<>>
    /\ ctl' = "raised"
    /\ UNCHANGED <<queue, stack, cur, arg, exc, raised, steps_history>>
    /\ UNCHANGED <<dbVars, ctxVars>>

----------------------------------------------------------------------------
(* The steps that work on files and on the current-run / current-topology  *)
(* pointers.  What a file holds is an input: reading or writing it either  *)
(* succeeds or fails.                                                      *)

Supported == {"amber", "gromacs"}

\* FindFiles.__call__: return next_step(context)
FindFiles ==
    /\ Body("FindFiles")
    /\ CallNext
    /\ UNCHANGED <<dbVars, ctxVars>>

\* SetCurrentTopology.__call__
SetCurrentTopology ==
    /\ Body("SetCurrentTopology")
    /\ sim' = [sim EXCEPT !.current_topol = TRUE,
                          !.current_topol_config = Top.step.a]
    /\ CallNext
    /\ UNCHANGED <<dbVars, fsVars, env, buildVars, slurm, process, wq>>

\* SetCurrentRun.__call__: the step holds the run config (its position)
SetCurrentRun ==
    /\ Body("SetCurrentRun")
    /\ sim' = [sim EXCEPT !.current_run = Top.step.a]
    /\ CallNext
    /\ UNCHANGED <<dbVars, fsVars, env, buildVars, slurm, process, wq>>

\* ReadCoordinates.__call__: CURRENT_RUN raises when unset, the file may
\* hold no positions or no box
ReadCoordinates ==
    /\ Body("ReadCoordinates")
    /\ \/ sim.current_run = 0 /\ Raise("ValueError")
       \/ sim.current_run # 0 /\ Raise("ValueError")
       \/ sim.current_run # 0 /\ CallNext
    /\ UNCHANGED <<dbVars, ctxVars>>

\* context.STRUCTURE: both pointers must be set
HasStructure == sim.current_run # 0 /\ sim.current_topol

\* WriteParameters.__precall__: BASENAME + extension, with BASENAME run
NewTopologyFile(software) ==
    <<"run", IF software = "gromacs" THEN ".top" ELSE ".parm7">>

\* WriteCoordinates.__precall__: BASENAME + f"-{self.index}" + extension
NewCoordinatesFile(index, software) ==
    <<"run", "-", Str(index), PositionExt(software)>>

\* WriteParameters.__call__: __precall__ sets an existing file aside, then
\* save and next_step inside try
WriteParameters ==
    /\ Body("WriteParameters")
    /\ LET d == SetAside(data_dir, renames, NewTopologyFile(env.SOFTWARE))
       IN  \/ /\ env.SOFTWARE \notin Supported
              /\ Raise("ValueError")
              /\ UNCHANGED <<data_dir, renames>>
           \/ /\ env.SOFTWARE \in Supported
              /\ Raise("IOError")
              /\ data_dir' = d.dir
              /\ renames' = d.hist
           \/ /\ env.SOFTWARE \in Supported
              /\ HasStructure
              /\ CallNext
              /\ data_dir' = WriteFile(d.dir, NewTopologyFile(env.SOFTWARE), <<>>)
              /\ renames' = d.hist
    /\ UNCHANGED <<dbVars, env, buildVars, slurm, sim, process, wq, run_ledgers>>

\* WriteCoordinates.__call__: the same shape as WriteParameters; the file
\* written becomes the START_COORDINATES_FILE of the current run config
WriteCoordinates ==
    /\ Body("WriteCoordinates")
    /\ LET file == NewCoordinatesFile(Top.step.a, env.SOFTWARE)
           d == SetAside(data_dir, renames, file)
       IN  \/ /\ env.SOFTWARE \notin Supported
              /\ Raise("ValueError")
              /\ UNCHANGED <<data_dir, renames, sim>>
           \/ /\ env.SOFTWARE \in Supported
              /\ Raise("IOError")
              /\ data_dir' = d.dir
              /\ renames' = d.hist
              /\ UNCHANGED sim
           \/ /\ env.SOFTWARE \in Supported
              /\ HasStructure
              /\ CallNext
              /\ data_dir' = WriteFile(d.dir, file, <<>>)
              /\ renames' = d.hist
              /\ sim' = [sim EXCEPT
                    !.run_configs[sim.current_run].START_COORDINATES_FILE = file]
    /\ UNCHANGED <<dbVars, env, buildVars, slurm, process, wq, run_ledgers>>

\* WriteRawParameters ending with next_step(context)
WriteRawParametersCallingNext ==
    /\ Body("WriteRawParameters")
    /\ IF env.SOFTWARE \in Supported THEN CallNext ELSE Raise("ValueError")
    /\ UNCHANGED <<dbVars, ctxVars>>

\* WriteRawParameters.__call__: __precall__ only; next_step is never called
WriteRawParameters ==
    /\ Body("WriteRawParameters")
    /\ IF env.SOFTWARE \in Supported THEN Return ELSE Raise("ValueError")
    /\ UNCHANGED <<dbVars, ctxVars>>

\* PrepareMDOptions.__call__: a copy of the config file in the data
\* directory is set aside, the options are written there; next_step is
\* called in the gromacs and in the amber branch only
PrepareMDOptions ==
    /\ Body("PrepareMDOptions")
    /\ IF sim.current_run = 0
       THEN Raise("ValueError") /\ UNCHANGED <<data_dir, renames>>
       ELSE LET new_file == sim.run_configs[sim.current_run].CONFIG_FILE
                d == SetAside(data_dir, renames, new_file)
            IN  /\ renames' = d.hist
                /\ IF env.SOFTWARE = "gromacs"
                   THEN IF sim.current_topol
                        THEN /\ data_dir' = WriteFile(d.dir, new_file, <<>>)
                             /\ CallNext
                        ELSE /\ data_dir' = d.dir
                             /\ Raise("ValueError")
                   ELSE IF env.SOFTWARE = "amber"
                   THEN /\ data_dir' = WriteFile(d.dir, new_file, <<>>)
                        /\ CallNext
                   ELSE /\ data_dir' = d.dir
                        /\ Return
    /\ UNCHANGED <<dbVars, env, buildVars, slurm, sim, process, wq, run_ledgers>>

\* topology_save_routine: its five jobs
TopologySaveJobs ==
    <<Step("SetCurrentTopology", 0), Step("SetCurrentRun", 1),
      Step("ReadCoordinates", 0), Step("WriteParameters", 0),
      Step("WriteCoordinates", 0)>>

\* topology_save_routine, up to pipe(context)
TopologySaveRoutine ==
    /\ Body("topology_save_routine")
    /\ CallSub(TopologySaveJobs, "sub")
    /\ UNCHANGED <<dbVars, ctxVars>>

\* topology_save_routine, from pipe(context) on: next_step(context)
TopologySaveRoutineNext ==
    /\ Resumed("topology_save_routine", "sub")
    /\ CallNext
    /\ UNCHANGED <<dbVars, ctxVars>>

----------------------------------------------------------------------------
(* run_routine and RunMD *)

\* a query without keys: its mask selects every row
ProjectQueryNoKeys(project_name) == [key \in {} |-> project_name]

\* the query {"PROJECT NAME": project_name}
ProjectQuery(project_name) == "PROJECT NAME" :> project_name

\* RunMD.__precall__, "if not self.rerun": find_index, then add_entry
RunMDPrecall(db, e, s, current_run, simulation_name) ==
    LET found == FindIndex(db.database, e.PROJECT_NAME, simulation_name)
    IN  IF found.ok
        THEN [ok |-> TRUE, index |-> found.index,
              db |-> DatabaseAddEntry(db, found.index,
                                      NewEntry(e, s, current_run,
                                               simulation_name))]
        ELSE [ok |-> FALSE, index |-> 0, db |-> db]

TheDb == [database |-> database, tmp_database |-> tmp_database, disk |-> disk]

SetDb(db) ==
    /\ database' = db.database
    /\ tmp_database' = db.tmp_database
    /\ disk' = db.disk

Call(op, project_name, simulation_name, index, column, value) ==
    [op |-> op, project |-> project_name, name |-> simulation_name,
     index |-> index, column |-> column, value |-> value,
     before |-> database, disk_before |-> disk,
     by |-> IF stack = <<>> THEN "" ELSE Top.step.kind, found |-> <<>>]

NoCall == [op |-> "none", project |-> "", name |-> <<>>, index |-> 0,
           column |-> "", value |-> "", before |-> <<>>, disk_before |-> <<>>,
           by |-> "", found |-> <<>>]

\* a command that reads the coordinates it writes itself
CmdReadingOwnOutput(current_run, simulation_name, software) ==
    [config |-> current_run.CONFIG_FILE,
     coordinates |-> OutputCoordinates(simulation_name, software),
     name |-> simulation_name,
     software |-> software]

\* _generate_amber_command / _generate_gromacs_command: the files the
\* command line names (-i / -f, -c) and the name its outputs carry
Cmd(current_run, simulation_name, software) ==
    [config |-> current_run.CONFIG_FILE,
     coordinates |-> current_run.START_COORDINATES_FILE,
     name |-> simulation_name,
     software |-> software]

\* _write_command_to_file opening md.run with "w"
WriteCommandToFileTruncating(dir, cmd) ==
    [f \in DOMAIN dir \cup {MdRun} |-> IF f = MdRun THEN <<cmd>> ELSE dir[f]]

\* _write_command_to_file: open(self.mdrun_file, "a")
WriteCommandToFile(dir, cmd) == AppendTo(dir, MdRun, <<cmd>>)

\* RunMD.__call__ with rerun = False
RunMD ==
    /\ Body("RunMD")
    /\ IF sim.current_run = 0 \/ ~sim.current_topol
       THEN Raise("ValueError") /\ UNCHANGED <<dbVars, data_dir>>
       ELSE LET current_run == sim.run_configs[sim.current_run]
                name == SimulationName(Top.step.a, current_run.SIM_TYPE)
                r == RunMDPrecall(TheDb, env, slurm, current_run, name)
            IN  /\ SetDb(r.db)
                /\ last' = Call(IF r.ok THEN "add_entry" ELSE "find_index",
                                env.PROJECT_NAME, name, r.index, "", "")
                /\ IF r.ok /\ env.SOFTWARE \in Supported
                   THEN /\ data_dir' = WriteCommandToFile(data_dir,
                                            Cmd(current_run, name, env.SOFTWARE))
                        /\ CallNext
                   ELSE /\ Raise("ValueError")
                        /\ UNCHANGED data_dir
    /\ UNCHANGED <<env, buildVars, slurm, sim, process, wq, renames, run_ledgers>>

\* RunSLURM.__call__: the commands of md.run are read, an md.slurm that
\* exists is set aside, the batch file is written anew
RunSLURM ==
    /\ Body("RunSLURM")
    /\ IF slurm.present /\ env.SOFTWARE \in Supported /\ MdRun \in DOMAIN data_dir
       THEN LET d == SetAside(data_dir, renames, MdSlurm)
            IN  /\ data_dir' = WriteFile(d.dir, MdSlurm, <<>>)
                /\ renames' = d.hist
                /\ CallNext
       ELSE Raise("ValueError") /\ UNCHANGED <<data_dir, renames>>
    /\ UNCHANGED <<dbVars, env, buildVars, slurm, sim, process, wq, run_ledgers>>

\* for i in range(run_config["NRUNS"]): jobs.append(RunMD(i, rerun=False))
RECURSIVE RunMDJobs(_, _)
RunMDJobs(i, n) ==
    IF i >= n THEN <<>> ELSE <<Step("RunMD", i)>> \o RunMDJobs(i + 1, n)

\* run_routine: the jobs of the run configs from position k on
RECURSIVE RunJobs(_, _)
RunJobs(run_configs, k) ==
    IF k > Len(run_configs) THEN <<>>
    ELSE <<Step("SetCurrentRun", k), Step("PrepareMDOptions", 0)>>
         \o RunMDJobs(0, run_configs[k].NRUNS)
         \o RunJobs(run_configs, k + 1)

\* run_routine, up to pipe(context): an md.run that exists is set aside
\* and, with a connection, an md.slurm that exists
RunRoutine ==
    /\ Body("run_routine")
    /\ LET run == SetAside(data_dir, renames, MdRun)
           d == IF slurm.present THEN SetAside(run.dir, run.hist, MdSlurm)
                ELSE run
       IN  /\ data_dir' = d.dir
           /\ renames' = d.hist
    /\ CallSub(RunJobs(sim.run_configs, 1)
               \o IF slurm.present THEN <<Step("RunSLURM", 0)>> ELSE <<>>,
               "sub")
    /\ run_ledgers' = Append(run_ledgers, [at |-> "start", database |-> database])
    /\ UNCHANGED <<dbVars, env, buildVars, slurm, sim, process, wq>>

\* run_routine, from pipe(context) on: next_step(context)
RunRoutineNext ==
    /\ Resumed("run_routine", "sub")
    /\ run_ledgers' = Append(run_ledgers, [at |-> "end", database |-> database])
    /\ CallNext
    /\ UNCHANGED <<dbVars, env, buildVars, slurm, sim, process, wq, data_dir, renames>>

----------------------------------------------------------------------------
(* remote_run_routine *)

\* what sbatch prints on stdout, split on whitespace: the job id is the
\* fourth word; nothing is printed when the submission fails
SbatchOutputs ==
    {<<"Submitted", "batch", "job", j>> : j \in JobIds} \cup {<<>>}

\* remote_run_routine: the guards, the transfers, sbatch, the ledger update
RemoteRunRoutine ==
    /\ Body("remote_run_routine")
    /\ IF ~slurm.present
       THEN Raise("ValueError") /\ UNCHANGED <<dbVars, slurm, process>>
       ELSE \E out \in SbatchOutputs :
            /\ process' = [returncode |-> IF out = <<>> THEN 1 ELSE 0,
                           stdout |-> out]
            /\ IF Len(out) < 4
               THEN Raise("IndexError") /\ UNCHANGED <<dbVars, slurm>>
               ELSE LET pid == out[4]
                    IN  /\ slurm' = [slurm EXCEPT !.PID = pid]
                        /\ database' = ModifyEntry(database, "PID", pid,
                                           ProjectQuery(env.PROJECT_NAME))
                        /\ last' = Call("modify_entry", env.PROJECT_NAME,
                                        <<>>, 0, "PID", pid)
                        /\ UNCHANGED <<tmp_database, disk>>
                        /\ CallNext
    /\ UNCHANGED <<fsVars, env, buildVars, sim, wq>>

----------------------------------------------------------------------------
(* check_runs_routine and CheckProgress *)

\* the simulation names the run configs give rise to
ConfigNames(run_configs) ==
    UNION {{SimulationName(i, run_configs[k].SIM_TYPE) :
                i \in 0 .. run_configs[k].NRUNS - 1} :
           k \in DOMAIN run_configs}

\* a log file as CheckProgress reads it: its extension, the number on the
\* first line holding the nsteps key and the number on the last line
\* holding the steps key (-1 where no line holds the key with a number)
Log(ext, nsteps, stat) == [ext |-> ext, nsteps |-> nsteps, stat |-> stat]

\* the logs of a simulation of two steps: complete, under way, without the
\* one or the other marker (GROMACS prints "Statistics over N + 1 steps")
LogContents(software) ==
    IF software = "amber"
    THEN {Log(".mdout", 2, 2), Log(".mdout", 2, 1), Log(".mdout", -1, 1),
          Log(".mdout", 2, -1)}
    ELSE {Log(".log", 2, 3), Log(".log", 2, 2), Log(".log", -1, 2),
          Log(".log", 2, -1), Log(".log", 2, 0)}

\* the log files of the data directory, in the order iterdir() yields them,
\* read by CheckProgress.__init__
LogLists(names, software) ==
    {l \in SeqsUpTo([name : names, log : LogContents(software)], MaxLogs) :
        \A i, j \in DOMAIN l : i # j => l[i].name # l[j].name}

NameQuery(project_name, simulation_name) ==
    ("PROJECT NAME" :> project_name) @@ ("SIMULATION NAME" :> simulation_name)

\* check_runs_routine, up to pipe(context): one CheckProgress per log file
CheckRunsRoutine ==
    /\ Body("check_runs_routine")
    /\ \E log_list \in LogLists(ConfigNames(sim.run_configs), env.SOFTWARE) :
        CallSub([i \in DOMAIN log_list |-> Step("CheckProgress", log_list[i])],
                "sub")
    /\ UNCHANGED <<dbVars, ctxVars>>

\* check_runs_routine, from pipe(context) on: next_step(context)
CheckRunsRoutineNext ==
    /\ Resumed("check_runs_routine", "sub")
    /\ CallNext
    /\ UNCHANGED <<dbVars, ctxVars>>

\* CheckProgress._init_software
InitSoftware(log) == IF log.ext = ".log" THEN "gromacs" ELSE "amber"

\* CheckProgress._extract_nsteps: negative stands for the ValueError
ExtractNsteps(log) == log.nsteps

\* CheckProgress._count_steps: negative stands for the ValueError
CountSteps(log) ==
    LET steps_done == IF log.stat >= 0 /\ InitSoftware(log) = "gromacs"
                      THEN log.stat - 1 ELSE log.stat
    IN  IF steps_done < 0 THEN -1 ELSE steps_done

\* CheckProgress writing Finished whatever the counts are
CheckProgressUpdateAlwaysFinished(db, query, log) ==
    Save([db EXCEPT !.database =
            ModifyEntry(db.database, "STAGE", "Finished", query)])

\* CheckProgress.__call__, the ledger part: modify_entry, then save
CheckProgressUpdate(db, query, log) ==
    LET stage == IF CountSteps(log) = ExtractNsteps(log)
                 THEN "Finished" ELSE "Unfinished"
    IN  Save([db EXCEPT !.database =
                ModifyEntry(db.database, "STAGE", stage, query)])

\* database_entry["STAGE"].tolist()[0] in ["Finished", "DOWNLOADED"], with
\* only the second of the two stages looked for
AlreadyFinishedOnlyDownloaded(database_entry) ==
    database_entry[1]["STAGE"] \in {"DOWNLOADED"}

\* database_entry["STAGE"].tolist()[0] in ["Finished", "DOWNLOADED"]
AlreadyFinished(database_entry) ==
    database_entry[1]["STAGE"] \in {"Finished", "DOWNLOADED"}

\* CheckProgress.__call__
CheckProgress ==
    /\ Body("CheckProgress")
    /\ LET log == Top.step.a.log
           query == NameQuery(env.PROJECT_NAME, Top.step.a.name)
           database_entry == FindEntries(database, query)
       IN  IF ExtractNsteps(log) < 0
           THEN Raise("ValueError") /\ UNCHANGED dbVars
           ELSE IF database_entry = <<>>
           THEN Raise("IndexError") /\ UNCHANGED dbVars
           ELSE IF AlreadyFinished(database_entry)
           THEN CallNext /\ UNCHANGED dbVars
           ELSE IF CountSteps(log) < 0
           THEN Raise("ValueError") /\ UNCHANGED dbVars
           ELSE /\ SetDb(CheckProgressUpdate(TheDb, query, log))
                /\ last' = Call("save", env.PROJECT_NAME, Top.step.a.name, 0,
                                "STAGE", "")
                /\ CallNext
    /\ UNCHANGED ctxVars

\* download_logs
DownloadLogs ==
    /\ Body("download_logs")
    /\ IF slurm.present /\ env.SOFTWARE \in Supported
       THEN CallNext /\ wq' = [wq EXCEPT !.downloads = @ + 1]
       ELSE Raise("ValueError") /\ UNCHANGED wq
    /\ UNCHANGED <<dbVars, fsVars, env, buildVars, slurm, sim, process>>

----------------------------------------------------------------------------
(* find_pid *)

\* the order of str: "-" sorts before the digits, the digits before "N"
PidRank(pid) ==
    CASE pid = "-1" -> 0
      [] pid = "101" -> 1
      [] pid = "102" -> 2
      [] OTHER -> 3

\* search_result["PID"].max(): "nan" on an empty column
PidMax(rows) ==
    IF rows = <<>> THEN "nan"
    ELSE LET pids == {rows[i]["PID"] : i \in DOMAIN rows}
         IN  CHOOSE p \in pids : \A q \in pids : PidRank(q) <= PidRank(p)

\* find_pid
FindPid ==
    /\ Body("find_pid")
    /\ IF ~slurm.present
       THEN Raise("ValueError") /\ UNCHANGED <<dbVars, slurm, process>>
       ELSE LET pid == PidMax(FindEntries(database,
                                ProjectQuery(env.PROJECT_NAME)))
                Done(new_pid) ==
                    /\ slurm' = [slurm EXCEPT !.PID = new_pid]
                    /\ database' = ModifyEntry(database, "PID", new_pid,
                                        ProjectQuery(env.PROJECT_NAME))
                    /\ last' = Call("modify_entry", env.PROJECT_NAME, <<>>, 0,
                                    "PID", new_pid)
                    /\ UNCHANGED <<tmp_database, disk>>
                    /\ CallNext
            IN  IF pid \in JobIds \cup {"-1"}
                THEN Done(pid) /\ UNCHANGED process
                ELSE \/ /\ process' = [returncode |-> 1, stdout |-> <<>>]
                        /\ Raise("SystemExit")
                        /\ UNCHANGED <<dbVars, slurm>>
                     \/ \E j \in JobIds :
                        /\ process' = [returncode |-> 0, stdout |-> <<j>>]
                        /\ Done(j)
    /\ UNCHANGED <<fsVars, env, buildVars, sim, wq>>

----------------------------------------------------------------------------
(* watch_queue_routine *)

SacctHeader == <<"JobID", "State", "ExitCode", "">>
SacctRow(state) == <<"id", state, "0:0", "">>

\* what sacct -p -b prints, as lines split on "|": the header, the job's
\* row, the row of its batch step (absent while the job has not started),
\* and two outputs with a line of another shape
SacctOutputs ==
    {<<SacctHeader>>, <<SacctHeader, SacctRow("PENDING")>>,
     <<SacctHeader, <<"garbage">>>>,
     <<SacctHeader, <<"garbage">>, SacctRow("RUNNING")>>}
    \cup {<<SacctHeader, SacctRow(s[1]), SacctRow(s[2])>> :
            s \in {<<"RUNNING", "RUNNING">>, <<"PENDING", "PENDING">>,
                   <<"RUNNING", "COMPLETED">>}}

\* parse_data: "raise" where the unpacking of line.split("|") fails,
\* "None" where the loop ends without a line of position 2
RECURSIVE ParseFrom(_, _)
ParseFrom(lines, i) ==
    IF i >= Len(lines) THEN "None"
    ELSE IF i = 0 THEN ParseFrom(lines, i + 1)
    ELSE IF Len(lines[i + 1]) # 4 THEN "raise"
    ELSE IF i = 2 THEN lines[i + 1][2]
    ELSE ParseFrom(lines, i + 1)

\* parse_data returning the state of the first line after the header
ParseDataOfSecondLine(lines) ==
    IF Len(lines) < 2 THEN "None"
    ELSE IF Len(lines[2]) # 4 THEN "raise"
    ELSE lines[2][2]

ParseData(lines) == ParseFrom(lines, 0)

WatchJobs == <<Step("download_logs", 0), Step("check_runs_routine", 0)>>

NoWatch == [polls |-> <<>>, downloads |-> 0, cycles |-> 0, sleeps |-> 0,
            failed |-> FALSE, next_calls |-> 0]

\* the innermost step goes on with its own body at the given place
Continue(phase) ==
    /\ ctl' = "step"
    /\ stack' = SetPhase(phase)
    /\ UNCHANGED <<cur, arg, exc, raised>>

\* the innermost step is in its own body at the given place
At(kind, phase) ==
    /\ ctl = "step"
    /\ stack # <<>>
    /\ Top.step.kind = kind
    /\ Top.phase = phase
    /\ UNCHANGED <<queue, steps_history>>

\* watch_queue_routine, up to the loop: the guards, find_pid when no PID
WatchQueueRoutine ==
    /\ Body("watch_queue_routine")
    /\ wq' = NoWatch
    /\ IF ~slurm.present THEN Raise("ValueError")
       ELSE IF slurm.PID = "None" THEN CallSub(<<Step("find_pid", 0)>>, "pid")
       ELSE Continue("loop")
    /\ UNCHANGED <<dbVars, fsVars, env, buildVars, slurm, sim, process>>

\* watch_queue_routine, after Pipeline(find_pid): "No run has been found."
WatchQueuePid ==
    /\ Resumed("watch_queue_routine", "pid")
    /\ IF slurm.PID = "None" THEN Raise("ValueError") ELSE Continue("loop")
    /\ UNCHANGED <<dbVars, ctxVars>>

\* a failed status query that is followed by the next pass of the loop
SacctFailsAndRetries ==
    /\ process' = [returncode |-> 1, stdout |-> <<>>]
    /\ wq' = [wq EXCEPT !.polls = Append(@, "ERROR"), !.failed = TRUE]
    /\ Continue("loop")

\* "if process.returncode != 0": log the error, break
SacctFails ==
    /\ process' = [returncode |-> 1, stdout |-> <<>>]
    /\ wq' = [wq EXCEPT !.polls = Append(@, "ERROR"), !.failed = TRUE]
    /\ Continue("after")

\* one pass of the loop from the status query to the break, the raise or
\* the call of Pipeline(download_logs, check_runs_routine)
WatchQueuePoll ==
    /\ At("watch_queue_routine", "loop")
    /\ Len(wq.polls) < MaxPolls
    /\ \/ SacctFails
       \/ \E out \in SacctOutputs :
          LET status == ParseData(out)
          IN  /\ process' = [returncode |-> 0, stdout |-> out]
              /\ wq' = [wq EXCEPT !.polls = Append(@, status),
                                  !.failed = (status = "None")]
              /\ IF status = "raise" THEN Raise("ValueError")
                 ELSE IF status = "None" THEN Continue("after")
                 ELSE IF status # "RUNNING" /\ status # "PENDING"
                 THEN CallSub(WatchJobs, "final")
                 ELSE CallSub(WatchJobs, "cycle")
    /\ UNCHANGED <<dbVars, fsVars, env, buildVars, slurm, sim>>

\* the loop after the pipeline of a non-terminal poll returned: time.sleep
WatchQueueSleep ==
    /\ Resumed("watch_queue_routine", "cycle")
    /\ wq' = [wq EXCEPT !.cycles = @ + 1, !.sleeps = @ + 1]
    /\ Continue("loop")
    /\ UNCHANGED <<dbVars, fsVars, env, buildVars, slurm, sim, process>>

\* the terminal pass ending with time.sleep like the other passes
WatchQueueFinalSleeping ==
    /\ Resumed("watch_queue_routine", "final")
    /\ wq' = [wq EXCEPT !.cycles = @ + 1, !.sleeps = @ + 1]
    /\ Continue("after")
    /\ UNCHANGED <<dbVars, fsVars, env, buildVars, slurm, sim, process>>

\* the loop after the pipeline of the terminal poll returned: break
WatchQueueFinal ==
    /\ Resumed("watch_queue_routine", "final")
    /\ wq' = [wq EXCEPT !.cycles = @ + 1]
    /\ Continue("after")
    /\ UNCHANGED <<dbVars, fsVars, env, buildVars, slurm, sim, process>>

\* watch_queue_routine returning after the loop without next_step(context)
WatchQueueNextReturning ==
    /\ At("watch_queue_routine", "after")
    /\ Return
    /\ UNCHANGED <<dbVars, fsVars, env, buildVars, slurm, sim, process, wq>>

\* watch_queue_routine, after the loop: next_step(context)
WatchQueueNext ==
    /\ At("watch_queue_routine", "after")
    /\ wq' = [wq EXCEPT !.next_calls = @ + 1]
    /\ CallNext
    /\ UNCHANGED <<dbVars, fsVars, env, buildVars, slurm, sim, process>>

----------------------------------------------------------------------------
(* download_finished *)

\* the modify_entry calls of download_finished: one per Finished row
RECURSIVE MarkDownloaded(_, _)
MarkDownloaded(table, found) ==
    IF found = <<>> THEN table
    ELSE MarkDownloaded(
            IF Head(found)["STAGE"] = "Finished"
            THEN ModifyEntry(table, "STAGE", "DOWNLOADED",
                    NameQuery(Head(found)["PROJECT NAME"],
                              Head(found)["SIMULATION NAME"]))
            ELSE table,
            Tail(found))

\* download_finished
DownloadFinished ==
    /\ Body("download_finished")
    /\ LET search_result == FindEntries(database,
                                ProjectQuery(env.PROJECT_NAME))
       IN  IF ~slurm.present \/ search_result = <<>>
           THEN Raise("ValueError") /\ UNCHANGED dbVars
           ELSE /\ database' = MarkDownloaded(database, search_result)
                /\ last' = Call("modify_entry", env.PROJECT_NAME, <<>>, 0,
                                "STAGE", "DOWNLOADED")
                /\ UNCHANGED <<tmp_database, disk>>
                /\ CallNext
    /\ UNCHANGED ctxVars

----------------------------------------------------------------------------
(* The program: one MDContext, one top-level Pipeline of routines *)

\* the routines of a campaign in the order they are run; the entry point
\* builds its Pipeline from them, with routines commented in and out
\* between runs
MainRoutines ==
    <<Step("topology_save_routine", 0), Step("run_routine", 0),
      Step("remote_run_routine", 0), Step("check_runs_routine", 0),
      Step("watch_queue_routine", 0), Step("download_finished", 0)>>

\* the runs of consecutive routines left in place
MainPipelines ==
    {SubSeq(MainRoutines, i, j) :
        i \in 1 .. Len(MainRoutines), j \in 1 .. Len(MainRoutines)}
    \ {<<>>}

RunConfig(index, sim_type, nruns, coordinates) ==
    [INDEX |-> index, SIM_TYPE |-> sim_type, NRUNS |-> nruns,
     CONFIG_FILE |-> <<sim_type, Str(index), ".in">>,
     START_COORDINATES_FILE |-> coordinates]

\* SimulationMenager._sortRunConfigs placing a config before the later
\* ones of a smaller or equal INDEX: sorted() is stable
RECURSIVE InsertRunConfig(_, _)
InsertRunConfig(sorted, config) ==
    IF sorted = <<>> THEN <<config>>
    ELSE IF sorted[Len(sorted)].INDEX <= config.INDEX
         THEN Append(sorted, config)
         ELSE Append(InsertRunConfig(SubSeq(sorted, 1, Len(sorted) - 1), config),
                     sorted[Len(sorted)])

\* SimulationMenager._sortRunConfigs: sorted(config, key=INDEX)
RECURSIVE SortRunConfigs(_)
SortRunConfigs(config) ==
    IF config = <<>> THEN <<>>
    ELSE InsertRunConfig(SortRunConfigs(SubSeq(config, 1, Len(config) - 1)),
                         config[Len(config)])

\* the run configs of a campaign: one stage of up to MaxNRuns repetitions,
\* or two stages of one repetition each, of different or of the same type,
\* the second starting from the coordinates the first leaves
RunConfigLists(software) ==
    {<<RunConfig(1, "md", n, StartCoordinates(software))>> : n \in 1 .. MaxNRuns}
    \cup {<<RunConfig(1, t, 1, StartCoordinates(software)),
            RunConfig(2, "md", 1,
                      OutputCoordinates(SimulationName(0, t), software))>> :
           t \in SimTypes}

EmptyDb == [database |-> <<>>, tmp_database |-> <<>>, disk |-> <<>>]

\* the table an earlier campaign of the project left at the database path:
\* two repetitions of one stage added by RunMD, the job id recorded, the
\* ledger saved by CheckProgress with the first repetition complete
PriorLedger(project_name) ==
    LET e == [PROJECT_NAME |-> project_name, SOFTWARE |-> "amber"]
        s == [present |-> TRUE, PID |-> "None"]
        r == RunConfig(1, "md", 2, StartCoordinates("amber"))
        d1 == RunMDPrecall(EmptyDb, e, s, r, SimulationName(0, "md")).db
        d2 == RunMDPrecall(d1, e, s, r, SimulationName(1, "md")).db
        d3 == [d2 EXCEPT !.database =
                 ModifyEntry(@, "PID", "101", ProjectQuery(project_name))]
        d4 == CheckProgressUpdate(d3,
                 NameQuery(project_name, SimulationName(0, "md")),
                 Log(".mdout", 2, 2))
    IN  d4.disk

PriorLedgers == {<<>>} \cup {PriorLedger(p) : p \in Projects}

\* MDContext.__init__ and Pipeline.__init__: the database is read from its
\* path (or created empty), nothing is current, no PID is known
Init ==
    /\ queue \in MainPipelines
    /\ stack = <<>>
    /\ ctl = "idle"
    /\ cur = [queue |-> <<>>, level |-> 0, pos |-> 0]
    /\ arg = TheContext
    /\ exc = NoExc
    /\ raised = NoExc
    /\ steps_history = <<>>
    /\ disk \in PriorLedgers
    /\ database = disk
    /\ tmp_database = <<>>
    /\ last = NoCall
    /\ env \in [PROJECT_NAME : {"demo"}, SOFTWARE : Softwares]
    /\ slurm \in [present : BOOLEAN, PID : {"None"}]
    /\ sim \in [run_configs : RunConfigLists(env.SOFTWARE), current_run : {0},
                current_topol : {FALSE},
                topol_configs : {<<>>}, current_topol_config : {0}]
    /\ process = [returncode |-> 0, stdout |-> <<>>]
    /\ wq = NoWatch
    /\ data_dir = NoFiles
    /\ renames = <<>>
    /\ run_ledgers = <<>>
    /\ NoBuild

Sequencer ==
    \/ PipelineCall
    \/ CursorEmpty
    \/ CursorStep
    \/ StepReturn
    \/ Propagate
    \/ PipelineReturn
    \/ PipelineRaise

Routines ==
    \/ SetCurrentTopology
    \/ SetCurrentRun
    \/ ReadCoordinates
    \/ WriteParameters
    \/ WriteCoordinates
    \/ TopologySaveRoutine
    \/ TopologySaveRoutineNext
    \/ PrepareMDOptions
    \/ RunMD
    \/ RunSLURM
    \/ RunRoutine
    \/ RunRoutineNext
    \/ RemoteRunRoutine
    \/ CheckRunsRoutine
    \/ CheckRunsRoutineNext
    \/ CheckProgress
    \/ DownloadLogs
    \/ FindPid
    \/ WatchQueueRoutine
    \/ WatchQueuePid
    \/ WatchQueuePoll
    \/ WatchQueueSleep
    \/ WatchQueueFinal
    \/ WatchQueueNext
    \/ DownloadFinished

Next == Sequencer \/ Routines

Spec == Init /\ [][Next]_vars

----------------------------------------------------------------------------
(* watch_queue_routine run to its end: the interpreter executes the next   *)
(* statement of the running step whenever there is one, which is weak      *)
(* fairness of the next-state relation                                     *)

\* the pipelines of the watch stage, with and without a routine after it;
\* the job id is given in the [SLURM] section or left for find_pid
InitWatch ==
    /\ queue \in {<<Step("watch_queue_routine", 0)>>,
                  <<Step("watch_queue_routine", 0),
                    Step("download_finished", 0)>>}
    /\ stack = <<>>
    /\ ctl = "idle"
    /\ cur = [queue |-> <<>>, level |-> 0, pos |-> 0]
    /\ arg = TheContext
    /\ exc = NoExc
    /\ raised = NoExc
    /\ steps_history = <<>>
    /\ disk \in PriorLedgers
    /\ database = disk
    /\ tmp_database = <<>>
    /\ last = NoCall
    /\ env \in [PROJECT_NAME : {"demo"}, SOFTWARE : Softwares]
    /\ slurm \in [present : BOOLEAN, PID : {"None", "101"}]
    /\ sim \in [run_configs : RunConfigLists(env.SOFTWARE), current_run : {0},
                current_topol : {FALSE},
                topol_configs : {<<>>}, current_topol_config : {0}]
    /\ process = [returncode |-> 0, stdout |-> <<>>]
    /\ wq = NoWatch
    /\ data_dir = NoFiles
    /\ renames = <<>>
    /\ run_ledgers = <<>>
    /\ NoBuild

NextWatch ==
    \/ PipelineCall
    \/ CursorEmpty
    \/ CursorStep
    \/ StepReturn
    \/ Propagate
    \/ PipelineReturn
    \/ PipelineRaise
    \/ CheckRunsRoutine
    \/ CheckRunsRoutineNext
    \/ CheckProgress
    \/ DownloadLogs
    \/ FindPid
    \/ WatchQueueRoutine
    \/ WatchQueuePid
    \/ WatchQueuePoll
    \/ WatchQueueSleep
    \/ WatchQueueFinal
    \/ WatchQueueNext
    \/ DownloadFinished

SpecWatch == InitWatch /\ [][NextWatch]_vars /\ WF_vars(NextWatch)

----------------------------------------------------------------------------
(* topology_setup_routine over the topol configs of a config file *)

\* a [TOPOL] section as a TopolConfig; TOPOLOGY is None until it is read
TopolConfig(index) == [INDEX |-> index, TOPOLOGY |-> FALSE]

\* SimulationMenager._sortTopolConfigs: sorted(config, key=INDEX)
SortTopolConfigs(config) == SortRunConfigs(config)

\* the [TOPOL] sections as the config file lists them: up to MaxTopols
\* sections of distinct INDEX up to MaxIndex, in any order
TopolConfigInputs ==
    {c \in SeqsUpTo({TopolConfig(i) : i \in 1 .. MaxIndex}, MaxTopols) :
        /\ c # <<>>
        /\ \A i, j \in DOMAIN c : i # j => c[i].INDEX # c[j].INDEX}

\* topology_setup_routine, up to pipe(context): SetCurrentTopology and
\* ReadTopology for every topol config, then MergeTopologies
TopologySetupRoutine ==
    /\ Body("topology_setup_routine")
    /\ LET n == Len(sim.topol_configs)
       IN  CallSub([i \in 1 .. 2 * n + 1 |->
                        IF i = 2 * n + 1 THEN Step("MergeTopologies", 0)
                        ELSE IF i % 2 = 1
                        THEN Step("SetCurrentTopology", (i + 1) \div 2)
                        ELSE Step("ReadTopology", 0)],
                   "sub")
    /\ UNCHANGED <<dbVars, ctxVars>>

\* topology_setup_routine, from pipe(context) on: next_step(context)
TopologySetupRoutineNext ==
    /\ Resumed("topology_setup_routine", "sub")
    /\ CallNext
    /\ UNCHANGED <<dbVars, ctxVars>>

\* ReadTopology.__call__: CURRENT_TOPOL raises when unset, the file may
\* fail to parse; the structure read is put into the current topol config
ReadTopology ==
    /\ Body("ReadTopology")
    /\ \/ /\ sim.current_topol_config = 0
          /\ Raise("ValueError")
          /\ UNCHANGED sim
       \/ /\ sim.current_topol_config # 0
          /\ Raise("ValueError")
          /\ UNCHANGED sim
       \/ /\ sim.current_topol_config # 0
          /\ sim' = [sim EXCEPT
                !.topol_configs[sim.current_topol_config].TOPOLOGY = TRUE]
          /\ CallNext
    /\ UNCHANGED <<dbVars, fsVars, env, buildVars, slurm, process, wq>>

\* MergeTopologies._merge_topologies: self.index starts at 1 and counts
\* the topol configs that hold a structure
RECURSIVE MergedIndex(_)
MergedIndex(configs) ==
    IF configs = <<>> THEN 1
    ELSE MergedIndex(Tail(configs)) + IF Head(configs).TOPOLOGY THEN 1 ELSE 0

\* MergeTopologies.__call__: topol_configs.append(new_topolgy)
MergeTopologies ==
    /\ Body("MergeTopologies")
    /\ sim' = [sim EXCEPT !.topol_configs =
                Append(@, [INDEX |-> MergedIndex(sim.topol_configs),
                           TOPOLOGY |-> TRUE])]
    /\ CallNext
    /\ UNCHANGED <<dbVars, fsVars, env, buildVars, slurm, process, wq>>

\* the pipelines of the topology stage: topology_setup_routine run once and
\* twice, on topol configs SimulationMenager has sorted
InitTopol ==
    /\ queue \in {<<Step("topology_setup_routine", 0)>>,
                  <<Step("topology_setup_routine", 0),
                    Step("topology_setup_routine", 0)>>}
    /\ stack = <<>>
    /\ ctl = "idle"
    /\ cur = [queue |-> <<>>, level |-> 0, pos |-> 0]
    /\ arg = TheContext
    /\ exc = NoExc
    /\ raised = NoExc
    /\ steps_history = <<>>
    /\ disk = <<>>
    /\ database = disk
    /\ tmp_database = <<>>
    /\ last = NoCall
    /\ env \in [PROJECT_NAME : {"demo"}, SOFTWARE : Softwares]
    /\ slurm = [present |-> FALSE, PID |-> "None"]
    /\ sim \in [run_configs : {<<RunConfig(1, "md", 1,
                                            StartCoordinates(env.SOFTWARE))>>},
                current_run : {0}, current_topol : {FALSE},
                topol_configs : {SortTopolConfigs(c) : c \in TopolConfigInputs},
                current_topol_config : {0}]
    /\ process = [returncode |-> 0, stdout |-> <<>>]
    /\ wq = NoWatch
    /\ data_dir = NoFiles
    /\ renames = <<>>
    /\ run_ledgers = <<>>
    /\ NoBuild

NextTopol ==
    \/ PipelineCall
    \/ CursorEmpty
    \/ CursorStep
    \/ StepReturn
    \/ Propagate
    \/ PipelineReturn
    \/ PipelineRaise
    \/ TopologySetupRoutine
    \/ TopologySetupRoutineNext
    \/ SetCurrentTopology
    \/ ReadTopology
    \/ MergeTopologies

SpecTopol == InitTopol /\ [][NextTopol]_vars

----------------------------------------------------------------------------
(* MDContext.__init__: the files the configs name are looked up, then the  *)
(* ledger is opened or created, then SimulationMenager sorts the configs   *)

\* a file as a config names it: by a relative name, or by an absolute path
Relative(name) == [dir |-> "", name |-> name]
Absolute(name) == [dir |-> "/abs", name |-> name]

\* the loop of make_absolute: the first directory under which the file exists
RECURSIVE FirstExisting(_, _, _)
FirstExisting(exists, directories, file) ==
    IF directories = <<>> THEN [ok |-> FALSE, file |-> file, path |-> file]
    ELSE LET path == [dir |-> Head(directories), name |-> file.name]
         IN  IF path \in exists
             THEN [ok |-> TRUE, file |-> file, path |-> path]
             ELSE FirstExisting(exists, Tail(directories), file)

\* make_absolute looking under the data directory first
MakeAbsoluteDataFirst(exists, file) ==
    IF file.dir # "" THEN [ok |-> TRUE, file |-> file, path |-> file]
    ELSE FirstExisting(exists, <<"data", "param", "root">>, file)

\* EnvironmentMenager.make_absolute: an absolute path is returned as it is;
\* ok is FALSE where FileNotFoundError is raised
MakeAbsolute(exists, file) ==
    IF file.dir # "" THEN [ok |-> TRUE, file |-> file, path |-> file]
    ELSE FirstExisting(exists, <<"root", "param", "data">>, file)

\* the make_absolute calls of a loop over files, up to the first that raises
RECURSIVE Resolve(_, _)
Resolve(exists, files) ==
    IF files = <<>> THEN <<>>
    ELSE LET r == MakeAbsolute(exists, Head(files))
         IN  IF r.ok THEN <<r>> \o Resolve(exists, Tail(files)) ELSE <<r>>

\* the loop ran through: no call raised
Resolved(calls) == \A i \in DOMAIN calls : calls[i].ok

\* MDContext.__init__ up to the file checks: EnvironmentMenager (and
\* SlurmMenager) are there, the root and the parameter directory exist
EnvironmentMenagerInit ==
    /\ mdcontext.at = "new"
    /\ mdcontext' = [mdcontext EXCEPT !.at = "environment"]
    /\ UNCHANGED <<machineVars, dbVars, env, slurm, sim, process, wq, fsVars,
                   dirs, parser>>

\* the outcome of a loop of make_absolute calls: on to the next place of
\* __init__, or FileNotFoundError out of it
Checked(calls, at) ==
    mdcontext' = [mdcontext EXCEPT
        !.calls = @ \o calls,
        !.at = IF Resolved(calls) THEN at ELSE "raised",
        !.error = IF Resolved(calls) THEN "none" ELSE "FileNotFoundError"]

\* MDContext._check_files_topol_configs: FILE of every topol config
CheckFilesTopolConfigs ==
    /\ mdcontext.at = "environment"
    /\ Checked(Resolve(dirs, [i \in DOMAIN mdcontext.topol_configs |->
                                mdcontext.topol_configs[i].FILE]), "topol")
    /\ UNCHANGED <<machineVars, dbVars, env, slurm, sim, process, wq, fsVars,
                   dirs, parser>>

\* the files _check_files_run_configs looks up, in its order:
\* START_COORDINATES_FILE of the config listed first, CONFIG_FILE of all
RunConfigFiles(run_configs) ==
    <<run_configs[1].START_COORDINATES_FILE>>
    \o [i \in DOMAIN run_configs |-> run_configs[i].CONFIG_FILE]

\* MDContext._check_files_run_configs
CheckFilesRunConfigs ==
    /\ mdcontext.at = "topol"
    /\ Checked(Resolve(dirs, RunConfigFiles(mdcontext.run_configs)), "run")
    /\ UNCHANGED <<machineVars, dbVars, env, slurm, sim, process, wq, fsVars,
                   dirs, parser>>

\* the database path of the [DATABASE] section
DatabasePath == Absolute("md.db")

\* DatabaseMenager._init_database: the ledger is read, or created empty
DatabaseMenagerInit ==
    /\ mdcontext.at = "run"
    /\ mdcontext' = [mdcontext EXCEPT
            !.at = "database",
            !.ledger = IF DatabasePath \in dirs THEN "opened" ELSE "created"]
    /\ dirs' = dirs \cup {DatabasePath}
    /\ UNCHANGED <<machineVars, dbVars, env, slurm, sim, process, wq, fsVars,
                   parser>>

\* SimulationMenager.__init__: both lists are sorted by INDEX
SimulationMenagerInit ==
    /\ mdcontext.at = "database"
    /\ mdcontext' = [mdcontext EXCEPT
            !.at = "constructed",
            !.topol_configs = SortTopolConfigs(@),
            !.run_configs = SortRunConfigs(@)]
    /\ UNCHANGED <<machineVars, dbVars, env, slurm, sim, process, wq, fsVars,
                   dirs, parser>>

\* the ways a config names a file
FileInputs(name) == {Relative(name), Absolute(name)}

\* the [RUNMD] sections as the config file lists them: one stage, or two
\* in either order, the second starting from what the first leaves
RunConfigFileInputs ==
    LET stage(index, config, coordinates) ==
            [INDEX |-> index, CONFIG_FILE |-> config,
             START_COORDINATES_FILE |-> coordinates]
    IN  UNION {LET first == stage(1, c, s)
                   second == stage(2, c, Relative("0-md.rst7"))
               IN  {<<first>>, <<first, second>>, <<second, first>>} :
               <<c, s>> \in FileInputs("md.in") \X FileInputs("init.rst7")}

\* the paths that may exist when the program starts
PathInputs ==
    {[dir |-> d, name |-> "sys.top"] : d \in {"root", "param", "data", "/abs"}}
    \cup {[dir |-> d, name |-> "md.in"] : d \in {"param", "/abs"}}
    \cup {[dir |-> d, name |-> "init.rst7"] : d \in {"data", "/abs"}}
    \cup {[dir |-> "data", name |-> "0-md.rst7"], DatabasePath}

\* MDContext.__init__ called with the configs Parser.from_config returned
InitContext ==
    /\ queue = <<>>
    /\ stack = <<>>
    /\ ctl = "idle"
    /\ cur = [queue |-> <<>>, level |-> 0, pos |-> 0]
    /\ arg = TheContext
    /\ exc = NoExc
    /\ raised = NoExc
    /\ steps_history = <<>>
    /\ disk = <<>>
    /\ database = disk
    /\ tmp_database = <<>>
    /\ last = NoCall
    /\ env = [PROJECT_NAME |-> "demo", SOFTWARE |-> "amber"]
    /\ slurm = [present |-> FALSE, PID |-> "None"]
    /\ sim = [run_configs |-> <<>>, current_run |-> 0, current_topol |-> FALSE,
              topol_configs |-> <<>>, current_topol_config |-> 0]
    /\ process = [returncode |-> 0, stdout |-> <<>>]
    /\ wq = NoWatch
    /\ data_dir = NoFiles
    /\ renames = <<>>
    /\ run_ledgers = <<>>
    /\ dirs \in SUBSET PathInputs
    /\ mdcontext \in [at : {"new"}, error : {"none"}, ledger : {"unopened"},
                      calls : {<<>>},
                      topol_configs : {<<[INDEX |-> 1, FILE |-> f]>> :
                                        f \in FileInputs("sys.top")},
                      run_configs : RunConfigFileInputs]
    /\ parser = NoParser

NextContext ==
    \/ EnvironmentMenagerInit
    \/ CheckFilesTopolConfigs
    \/ CheckFilesRunConfigs
    \/ DatabaseMenagerInit
    \/ SimulationMenagerInit

SpecContext == InitContext /\ [][NextContext]_vars

----------------------------------------------------------------------------
(* Parser: the config file read into config_data, config_data converted    *)
(* into typed section dicts.  A section name is its words and digit runs,  *)
(* <<"RUNMD", "1">>; a value is its text and what _isint and _ispathlike   *)
(* make of it.                                                             *)

Digits(text) == [kind |-> "digits", text |-> text]
PathLike(text) == [kind |-> "path", text |-> text]
Word(text) == [kind |-> "word", text |-> text]

Field(name, type, optional) ==
    [name |-> name, type |-> type, optional |-> optional]

\* get_type_hints of the TypedDict classes
TypeHints(typed_section) ==
    CASE typed_section = "EnvironmentConfig" ->
            <<Field("SOFTWARE", "str", FALSE), Field("BASENAME", "str", FALSE),
              Field("PROJECT_NAME", "str", FALSE),
              Field("RESOURCE", "str", FALSE),
              Field("CPUS_PER_TASK", "int", FALSE),
              Field("ROOT", "Path", TRUE), Field("PARAM_DIR", "Path", TRUE),
              Field("DATA_DIR", "Path", TRUE)>>
      [] typed_section = "DatabaseConfig" ->
            <<Field("DATABASE_PATH", "Path", FALSE),
              Field("DATABASE", "Database", TRUE)>>
      [] typed_section = "TopolConfig" ->
            <<Field("INDEX", "int", FALSE), Field("NAME", "str", FALSE),
              Field("FF", "str", FALSE), Field("NUMBER", "int", FALSE),
              Field("FILE", "Path", FALSE),
              Field("TOPOLOGY", "Structure", TRUE)>>
      [] typed_section = "RunConfig" ->
            <<Field("INDEX", "int", FALSE), Field("SIM_TYPE", "str", FALSE),
              Field("NRUNS", "int", FALSE), Field("CONFIG_FILE", "Path", FALSE),
              Field("START_COORDINATES_FILE", "Path", FALSE),
              Field("START_COORDINATES", "Quantity", TRUE),
              Field("START_BOX", "ArrayLike", TRUE)>>
      [] typed_section = "SlurmConfig" ->
            <<Field("REMOTE_DIR", "Path", FALSE),
              Field("LUSTRE_DIR", "Path", FALSE),
              Field("DOWNLOAD_DIR", "Path", FALSE),
              Field("REMOTE_ADRESS", "str", FALSE),
              Field("NODES", "int", FALSE), Field("NTASKS", "int", FALSE),
              Field("MEMORY", "str", FALSE), Field("TIME", "str", FALSE),
              Field("ACCOUNT", "str", FALSE), Field("PARTITION", "str", FALSE),
              Field("QOS", "str", TRUE), Field("GPU_RESOURCES", "str", TRUE),
              Field("NGPU", "int", TRUE),
              Field("SSH_CONNECTION", "SSHConnection", TRUE),
              Field("PID", "int", TRUE)>>

\* str.upper on the words of a section name
Upper(section) ==
    [i \in DOMAIN section |->
        CASE section[i] = "runmd" -> "RUNMD"
          [] section[i] = "topol" -> "TOPOL"
          [] OTHER -> section[i]]

\* _find_section: the class of the first key of section_map the name is
\* or starts with; "KeyError" where it starts with none
FindSection(section_name) ==
    LET word == Head(section_name)
    IN  CASE word = "ENVIRONMENT" -> "EnvironmentConfig"
          [] word = "SLURM" -> "SlurmConfig"
          [] word = "RUNMD" -> "RunConfig"
          [] word \in {"TOPOL", "TOPOLOGY"} -> "TopolConfig"
          [] word = "DATABASE" -> "DatabaseConfig"
          [] OTHER -> "KeyError"

\* _parse_config storing a section: config_data[section.upper()] =
\* section_dict, a key that is there keeps its place and gets the new dict
Store(config_data, section) ==
    LET key == Upper(section.name)
    IN  IF \E i \in DOMAIN config_data : config_data[i].name = key
        THEN [i \in DOMAIN config_data |->
                IF config_data[i].name = key
                THEN [name |-> key, options |-> section.options]
                ELSE config_data[i]]
        ELSE Append(config_data, [name |-> key, options |-> section.options])

\* _parse_config: the sections of the file in the order of the file
RECURSIVE ParseConfig(_)
ParseConfig(file) ==
    IF file = <<>> THEN <<>>
    ELSE Store(ParseConfig(SubSeq(file, 1, Len(file) - 1)), file[Len(file)])

\* _get_field_value: the option; None for an optional field; for a RUNMD
\* or TOPOL section the first run of digits of the section name
GetFieldValue(section_dict, section_name, field) ==
    IF field.name \in DOMAIN section_dict
    THEN [is |-> "value", value |-> section_dict[field.name]]
    ELSE IF field.optional THEN [is |-> "None"]
    ELSE IF Head(section_name) \in {"RUNMD", "TOPOL"}
         THEN IF Len(section_name) > 1
              THEN [is |-> "value", value |-> Digits(section_name[2])]
              ELSE [is |-> "ValueError"]
         ELSE [is |-> "ValueError"]

\* to_section_dict casting a value: int of a string of digits, Path of a
\* path-like string, str; "omitted" where the loop goes on without storing
Coerce(got, field) ==
    IF got.is = "None" THEN "None"
    ELSE IF field.type = "int" /\ got.value.kind = "digits" THEN "int"
    ELSE IF field.type = "Path" /\ got.value.kind = "path" THEN "Path"
    ELSE IF field.type = "str" THEN "str"
    ELSE "omitted"

\* to_section_dict: KeyError on an option that is no field, ValueError from
\* _get_field_value, TypedDictError when a field was not stored; otherwise
\* the typed dict, every field with the type of its value
ToSectionDict(typed_section, section_name, section_dict) ==
    LET hints == TypeHints(typed_section)
        got(i) == GetFieldValue(section_dict, section_name, hints[i])
    IN  IF \E option \in DOMAIN section_dict :
                \A i \in DOMAIN hints : hints[i].name # option
        THEN [error |-> "KeyError"]
        ELSE IF \E i \in DOMAIN hints : got(i).is = "ValueError"
        THEN [error |-> "ValueError"]
        ELSE IF \E i \in DOMAIN hints : Coerce(got(i), hints[i]) = "omitted"
        THEN [error |-> "TypedDictError"]
        ELSE [error |-> "none", class |-> typed_section, name |-> section_name,
              fields |-> [i \in DOMAIN hints |-> Coerce(got(i), hints[i])]]

NoRecords == [error |-> "none", environment |-> <<>>, database |-> <<>>,
              topol |-> <<>>, run |-> <<>>, slurm |-> <<>>]

\* the loop of from_config: one slot for SlurmConfig, EnvironmentConfig and
\* DatabaseConfig, a list for RunConfig and for TopolConfig
RECURSIVE Convert(_, _)
Convert(config_data, records) ==
    IF config_data = <<>> THEN records
    ELSE LET key == Head(config_data).name
             class == FindSection(key)
             section_dict == IF class = "KeyError" THEN [error |-> "KeyError"]
                             ELSE ToSectionDict(class, key,
                                                Head(config_data).options)
         IN  IF section_dict.error # "none"
             THEN [NoRecords EXCEPT !.error = section_dict.error]
             ELSE Convert(Tail(config_data),
                    CASE class = "SlurmConfig" ->
                            [records EXCEPT !.slurm = <<section_dict>>]
                      [] class = "EnvironmentConfig" ->
                            [records EXCEPT !.environment = <<section_dict>>]
                      [] class = "DatabaseConfig" ->
                            [records EXCEPT !.database = <<section_dict>>]
                      [] class = "RunConfig" ->
                            [records EXCEPT !.run = Append(@, section_dict)]
                      [] class = "TopolConfig" ->
                            [records EXCEPT !.topol = Append(@, section_dict)])

\* Parser.__init__: self.config_data = self._parse_config(self.file)
ParserInit ==
    /\ parser.at = "new"
    /\ parser' = [parser EXCEPT !.at = "parsed",
                                !.config_data = ParseConfig(parser.file)]
    /\ UNCHANGED <<machineVars, dbVars, env, slurm, sim, process, wq, fsVars,
                   dirs, mdcontext>>

\* Parser.from_config: the loop, then the sections that must be there
FromConfig ==
    /\ parser.at = "parsed"
    /\ LET records == Convert(parser.config_data, NoRecords)
           returned ==
                IF records.error = "none"
                   /\ \/ records.environment = <<>>
                      \/ records.database = <<>>
                      \/ records.topol = <<>>
                      \/ records.run = <<>>
                THEN [NoRecords EXCEPT !.error = "TypedDictError"]
                ELSE records
       IN  parser' = [parser EXCEPT
                        !.at = IF returned.error = "none"
                               THEN "returned" ELSE "raised",
                        !.records = returned]
    /\ UNCHANGED <<machineVars, dbVars, env, slurm, sim, process, wq, fsVars,
                   dirs, mdcontext>>

\* a section of a config file with every field that is not optional (the
\* fields of a run stage under a name that is no section's)
Section(section_name) ==
    LET class == FindSection(Upper(section_name))
        hints == TypeHints(IF class = "KeyError" THEN "RunConfig" ELSE class)
        value(field) ==
            CASE field.type = "int" -> Digits("1")
              [] field.type = "Path" -> PathLike("file.ext")
              [] OTHER -> Word("text")
    IN  [name |-> section_name,
         options |-> [option \in {hints[i].name : i \in
                                    {j \in DOMAIN hints : ~hints[j].optional}}
                      |-> value(CHOOSE f \in {hints[i] : i \in DOMAIN hints} :
                                    f.name = option)]]

\* the section without one of its options
Without(section, option) ==
    [section EXCEPT !.options =
        [o \in DOMAIN section.options \ {option} |-> section.options[o]]]

\* the sections of a config file, one of them lacking one option
Lacking(file) ==
    {[file EXCEPT ![i] = Without(file[i], option)] :
        <<i, option>> \in UNION {{i} \X DOMAIN file[i].options :
                                    i \in DOMAIN file}}

\* a section put into a file after its first pos sections
Inserted(file, pos, section) ==
    SubSeq(file, 1, pos) \o <<section>> \o SubSeq(file, pos + 1, Len(file))

\* the config files: the four sections a campaign needs; with one more
\* section at any place, of a new name, of a name that is there already
\* (also in lower case), of a second name of a one-slot class, or of an
\* unknown name; each of these with one section left out, or with one
\* option left out of one section
ConfigFiles ==
    LET base == <<Section(<<"ENVIRONMENT">>), Section(<<"DATABASE">>),
                  Section(<<"TOPOL", "1">>), Section(<<"RUNMD", "1">>)>>
        more == {<<"RUNMD", "2">>, <<"RUNMD", "1">>, <<"runmd", "1">>,
                 <<"TOPOL", "2">>, <<"RUNMD">>, <<"TOPOLOGY">>, <<"SLURM">>,
                 <<"ENVIRONMENT", "2">>, <<"MDRUN", "1">>}
        files == {f \in {base} \cup {Inserted(base, pos, Section(name)) :
                                        pos \in 0 .. Len(base), name \in more} :
                    Len(f) <= MaxSections}
    IN  files
        \cup {SubSeq(f, 1, i - 1) \o SubSeq(f, i + 1, Len(f)) :
                <<f, i>> \in UNION {{f} \X DOMAIN f : f \in files}}
        \cup UNION {Lacking(f) : f \in files}

\* Parser(file) about to be constructed
InitParser ==
    /\ queue = <<>>
    /\ stack = <<>>
    /\ ctl = "idle"
    /\ cur = [queue |-> <<>>, level |-> 0, pos |-> 0]
    /\ arg = TheContext
    /\ exc = NoExc
    /\ raised = NoExc
    /\ steps_history = <<>>
    /\ disk = <<>>
    /\ database = disk
    /\ tmp_database = <<>>
    /\ last = NoCall
    /\ env = [PROJECT_NAME |-> "demo", SOFTWARE |-> "amber"]
    /\ slurm = [present |-> FALSE, PID |-> "None"]
    /\ sim = [run_configs |-> <<>>, current_run |-> 0, current_topol |-> FALSE,
              topol_configs |-> <<>>, current_topol_config |-> 0]
    /\ process = [returncode |-> 0, stdout |-> <<>>]
    /\ wq = NoWatch
    /\ data_dir = NoFiles
    /\ renames = <<>>
    /\ run_ledgers = <<>>
    /\ dirs = {}
    /\ mdcontext = [at |-> "new"]
    /\ parser \in [at : {"new"}, file : ConfigFiles, config_data : {<<>>},
                   records : {NoRecords}]

NextParser ==
    \/ ParserInit
    \/ FromConfig

SpecParser == InitParser /\ [][NextParser]_vars

----------------------------------------------------------------------------
(* run_routine, once and restarted, over the run configs of a config file *)

\* the [RUN] sections as the config file lists them: one stage; two chained
\* stages, in order and out of order, of different and of the same type;
\* a second stage chained to the last repetition of the first; two stages
\* that both start from the supplied coordinates
RunConfigInputs(software) ==
    LET first(t, n) == RunConfig(1, t, n, StartCoordinates(software))
        second(t, i) == RunConfig(2, "md", 1,
                            OutputCoordinates(SimulationName(i, t), software))
    IN  {<<first("md", n)>> : n \in 1 .. MaxNRuns}
        \cup {<<first(t, 1), second(t, 0)>> : t \in SimTypes}
        \cup {<<second("eq", 0), first("eq", 1)>>,
              <<first("eq", MaxNRuns), second("eq", MaxNRuns - 1)>>,
              <<first("eq", 1), RunConfig(2, "md", 1, StartCoordinates(software))>>}

\* the run scripts the data directory may hold before the program starts:
\* none, the script of an earlier campaign, that script and a backup
PriorScripts ==
    LET old == Cmd(RunConfig(1, "eq", 1, StartCoordinates("amber")),
                   SimulationName(0, "eq"), "amber")
    IN  {NoFiles,
         MdRun :> <<old>>,
         (MdRun :> <<old>>) @@ (DuplicatePath(MdRun, 1) :> <<old, old>>)}

\* the pipelines of the run stage: run_routine after topology_save_routine,
\* run once or twice, and run_routine alone
InitRun ==
    /\ queue \in {<<Step("topology_save_routine", 0), Step("run_routine", 0)>>,
                  <<Step("topology_save_routine", 0), Step("run_routine", 0),
                    Step("run_routine", 0)>>,
                  <<Step("run_routine", 0)>>}
    /\ stack = <<>>
    /\ ctl = "idle"
    /\ cur = [queue |-> <<>>, level |-> 0, pos |-> 0]
    /\ arg = TheContext
    /\ exc = NoExc
    /\ raised = NoExc
    /\ steps_history = <<>>
    /\ disk \in PriorLedgers
    /\ database = disk
    /\ tmp_database = <<>>
    /\ last = NoCall
    /\ env \in [PROJECT_NAME : {"demo"}, SOFTWARE : Softwares]
    /\ slurm \in [present : BOOLEAN, PID : {"None"}]
    /\ sim \in [run_configs : {SortRunConfigs(config) :
                                config \in RunConfigInputs(env.SOFTWARE)},
                current_run : {0}, current_topol : {FALSE},
                topol_configs : {<<>>}, current_topol_config : {0}]
    /\ process = [returncode |-> 0, stdout |-> <<>>]
    /\ wq = NoWatch
    /\ data_dir \in PriorScripts
    /\ renames = <<>>
    /\ run_ledgers = <<>>
    /\ NoBuild

NextRun ==
    \/ PipelineCall
    \/ CursorEmpty
    \/ CursorStep
    \/ StepReturn
    \/ Propagate
    \/ PipelineReturn
    \/ PipelineRaise
    \/ SetCurrentTopology
    \/ SetCurrentRun
    \/ ReadCoordinates
    \/ WriteParameters
    \/ WriteCoordinates
    \/ TopologySaveRoutine
    \/ TopologySaveRoutineNext
    \/ PrepareMDOptions
    \/ RunMD
    \/ RunSLURM
    \/ RunRoutine
    \/ RunRoutineNext

SpecRun == InitRun /\ [][NextRun]_vars

----------------------------------------------------------------------------
(* The sequencer alone, driven with every pipeline of file steps *)

FileStepSet ==
    {Step("FindFiles", 0), Step("SetCurrentTopology", 0),
     Step("SetCurrentRun", 1), Step("ReadCoordinates", 0),
     Step("WriteParameters", 0), Step("WriteRawParameters", 0),
     Step("PrepareMDOptions", 0)}

InitPipeline ==
    /\ queue \in SeqsUpTo(FileStepSet, MaxSteps)
    /\ stack = <<>>
    /\ ctl = "idle"
    /\ cur = [queue |-> <<>>, level |-> 0, pos |-> 0]
    /\ arg = TheContext
    /\ exc = NoExc
    /\ raised = NoExc
    /\ steps_history = <<>>
    /\ disk = <<>>
    /\ database = <<>>
    /\ tmp_database = <<>>
    /\ last = NoCall
    /\ env \in [PROJECT_NAME : {"demo"}, SOFTWARE : Softwares]
    /\ slurm = [present |-> FALSE, PID |-> "None"]
    /\ sim = [run_configs |-> <<RunConfig(1, "md", 1, StartCoordinates("amber"))>>,
              current_run |-> 0, current_topol |-> FALSE,
              topol_configs |-> <<>>, current_topol_config |-> 0]
    /\ process = [returncode |-> 0, stdout |-> <<>>]
    /\ wq = NoWatch
    /\ data_dir = NoFiles
    /\ renames = <<>>
    /\ run_ledgers = <<>>
    /\ NoBuild

NextPipeline ==
    \/ PipelineCall
    \/ CursorEmpty
    \/ CursorStep
    \/ StepReturn
    \/ Propagate
    \/ PipelineReturn
    \/ PipelineRaise
    \/ FindFiles
    \/ SetCurrentTopology
    \/ SetCurrentRun
    \/ ReadCoordinates
    \/ WriteParameters
    \/ WriteRawParameters
    \/ PrepareMDOptions

SpecPipeline == InitPipeline /\ [][NextPipeline]_vars

----------------------------------------------------------------------------
(* make_duplicate alone: files set aside and written anew *)

\* the renames of one file, in order
RenamesOf(file) == SelectSeq(renames, LAMBDA r : r.src = file)

\* what the n-th writing of a file puts into it
Written(n) == <<[written |-> n]>>

\* the data directory holds run.top, written once, and may hold md.run; no
\* file has a backup
InitFiles ==
    /\ queue = <<>>
    /\ stack = <<>>
    /\ ctl = "idle"
    /\ cur = [queue |-> <<>>, level |-> 0, pos |-> 0]
    /\ arg = TheContext
    /\ exc = NoExc
    /\ raised = NoExc
    /\ steps_history = <<>>
    /\ disk = <<>>
    /\ database = <<>>
    /\ tmp_database = <<>>
    /\ last = NoCall
    /\ env = [PROJECT_NAME |-> "demo", SOFTWARE |-> "gromacs"]
    /\ slurm = [present |-> FALSE, PID |-> "None"]
    /\ sim = [run_configs |-> <<RunConfig(1, "md", 1, StartCoordinates("gromacs"))>>,
              current_run |-> 0, current_topol |-> FALSE,
              topol_configs |-> <<>>, current_topol_config |-> 0]
    /\ process = [returncode |-> 0, stdout |-> <<>>]
    /\ wq = NoWatch
    /\ data_dir \in {RunTop :> Written(1),
                     (RunTop :> Written(1)) @@ (MdRun :> Written(1))}
    /\ renames = <<>>
    /\ run_ledgers = <<>>
    /\ NoBuild

\* a caller finds the file and sets it aside
FilesMakeDuplicate ==
    \E file \in {RunTop, MdRun} :
        /\ file \in DOMAIN data_dir
        /\ Ndup(data_dir, file) <= MaxBackups
        /\ LET d == SetAside(data_dir, renames, file)
           IN  /\ data_dir' = d.dir
               /\ renames' = d.hist
        /\ UNCHANGED <<machineVars, dbVars, env, buildVars, slurm, sim, process, wq,
                       run_ledgers>>

\* the caller writes the file anew after setting the old one aside
FilesWrite ==
    \E file \in {RunTop, MdRun} :
        /\ file \notin DOMAIN data_dir
        /\ data_dir' = WriteFile(data_dir, file,
                                 Written(Len(RenamesOf(file)) + 1))
        /\ UNCHANGED <<machineVars, dbVars, env, buildVars, slurm, sim, process, wq,
                       renames, run_ledgers>>

NextFiles == FilesMakeDuplicate \/ FilesWrite

SpecFiles == InitFiles /\ [][NextFiles]_vars

----------------------------------------------------------------------------
(* The Database object alone, under every sequence of its operations *)

InitLedger ==
    /\ queue = <<>>
    /\ stack = <<>>
    /\ ctl = "idle"
    /\ cur = [queue |-> <<>>, level |-> 0, pos |-> 0]
    /\ arg = TheContext
    /\ exc = NoExc
    /\ raised = NoExc
    /\ steps_history = <<>>
    /\ disk = <<>>
    /\ database = <<>>
    /\ tmp_database = <<>>
    /\ last = NoCall
    /\ env = [PROJECT_NAME |-> "demo", SOFTWARE |-> "amber"]
    /\ slurm = [present |-> TRUE, PID |-> "None"]
    /\ sim = [run_configs |-> <<RunConfig(1, "md", 2, StartCoordinates("amber"))>>,
              current_run |-> 1, current_topol |-> TRUE,
              topol_configs |-> <<>>, current_topol_config |-> 0]
    /\ process = [returncode |-> 0, stdout |-> <<>>]
    /\ wq = NoWatch
    /\ data_dir = NoFiles
    /\ renames = <<>>
    /\ run_ledgers = <<>>
    /\ NoBuild

\* RunMD.__precall__ with rerun = False, for a repetition of some project
LedgerRunMD ==
    \E project_name \in Projects,
       number \in 0 .. sim.run_configs[sim.current_run].NRUNS - 1 :
        LET name == SimulationName(number,
                        sim.run_configs[sim.current_run].SIM_TYPE)
            e == [env EXCEPT !.PROJECT_NAME = project_name]
            r == RunMDPrecall(TheDb, e, slurm,
                              sim.run_configs[sim.current_run], name)
        IN  /\ Len(database) < MaxRows
               \/ FindEntries(database, NameQuery(project_name, name)) # <<>>
            /\ SetDb(r.db)
            /\ last' = [Call(IF r.ok THEN "add_entry" ELSE "find_index",
                             project_name, name, r.index, "", "")
                        EXCEPT !.before = database]
            /\ UNCHANGED <<machineVars, ctxVars>>

\* the modify_entry of remote_run_routine: the job id of a project
LedgerModifyPid ==
    \E project_name \in Projects :
        /\ database' = ModifyEntry(database, "PID", "101",
                                   ProjectQuery(project_name))
        /\ last' = Call("modify_entry", project_name, <<>>, 0, "PID", "101")
        /\ UNCHANGED <<tmp_database, disk, machineVars, ctxVars>>

\* the modify_entry of download_finished: the stage of one row
LedgerModifyStage ==
    \E i \in DOMAIN database :
        /\ database' = ModifyEntry(database, "STAGE", "DOWNLOADED",
                          NameQuery(database[i]["PROJECT NAME"],
                                    database[i]["SIMULATION NAME"]))
        /\ last' = Call("modify_entry", database[i]["PROJECT NAME"],
                        database[i]["SIMULATION NAME"], 0, "STAGE",
                        "DOWNLOADED")
        /\ UNCHANGED <<tmp_database, disk, machineVars, ctxVars>>

\* Database.save
LedgerSave ==
    /\ SetDb(Save(TheDb))
    /\ last' = Call("save", "", <<>>, 0, "", "")
    /\ UNCHANGED <<machineVars, ctxVars>>

\* Database.__init__ of the next run: the table is read from the path
LedgerOpen ==
    /\ database' = disk
    /\ tmp_database' = <<>>
    /\ last' = Call("open", "", <<>>, 0, "", "")
    /\ UNCHANGED <<disk, machineVars, ctxVars>>

\* Database.find_entries, with the queries the routines pass: the rows of
\* a project, the row of a simulation
LedgerFind ==
    \E project_name \in Projects,
       name \in {<<>>} \cup ConfigNames(sim.run_configs) :
        LET query == IF name = <<>> THEN ProjectQuery(project_name)
                     ELSE NameQuery(project_name, name)
        IN  /\ last' = [Call("find_entries", project_name, name, 0, "", "")
                        EXCEPT !.found = FindEntries(database, query)]
            /\ UNCHANGED <<database, tmp_database, disk, machineVars, ctxVars>>

NextLedger ==
    \/ LedgerFind
    \/ LedgerRunMD
    \/ LedgerModifyPid
    \/ LedgerModifyStage
    \/ LedgerSave
    \/ LedgerOpen

SpecLedger == InitLedger /\ [][NextLedger]_vars

----------------------------------------------------------------------------
(* The ledger *)

Names == {SimulationName(number, sim_type) :
            number \in 0 .. MaxNRuns - 1, sim_type \in SimTypes}

\* the key of a row: (PROJECT NAME, SIMULATION NAME)
KeyOf(row) == <<row["PROJECT NAME"], row["SIMULATION NAME"]>>

\* C1: under every sequence of RunMD(rerun=False) steps (find_index, then
\* add_entry) from an empty ledger, interleaved with the other ledger
\* operations, the main table holds at most one row per
\* (PROJECT NAME, SIMULATION NAME) pair.
C1_OneRowPerPair ==
    \A i, j \in DOMAIN database :
        KeyOf(database[i]) = KeyOf(database[j]) => i = j

\* RunMD has run again for a pair the ledger of two rows already held
C1_Witness ==
    /\ last.op = "add_entry"
    /\ Len(database) >= 2
    /\ FindEntries(last.before, NameQuery(last.project, last.name)) # <<>>

\* C2: find_index is find-or-create.  One matching row: its index.  No
\* matching row: last_index + 1, greater than the index of every row.  More
\* than one matching row (the table with a row of the ledger entered a
\* second time): the error.  And after add_entry under the index that
\* find_index gave, find_index gives that index again.
C2_FindOrCreate ==
    /\ \A project_name \in Projects, name \in Names :
        LET found == FindEntries(database, NameQuery(project_name, name))
            r == FindIndex(database, project_name, name)
        IN  /\ Len(found) = 1 => r.ok /\ r.index = found[1].index
            /\ found = <<>> =>
                /\ r.ok
                /\ r.index = GetLastIndex(database) + 1
                /\ \A i \in DOMAIN database : r.index > database[i].index
            /\ Len(found) > 1 => ~r.ok
    /\ \A i \in DOMAIN database :
        LET again == [database[i] EXCEPT !.index = GetLastIndex(database) + 1]
        IN  ~FindIndex(Append(database, again), database[i]["PROJECT NAME"],
                       database[i]["SIMULATION NAME"]).ok
    /\ last.op = "add_entry" =>
        /\ last.index = FindIndex(last.before, last.project, last.name).index
        /\ FindIndex(database, last.project, last.name)
             = [ok |-> TRUE, index |-> last.index]

\* find_index created an index for a new name in a ledger that held a row,
\* add_entry stored the row under it
C2_Witness ==
    /\ last.op = "add_entry"
    /\ last.before # <<>>
    /\ FindEntries(last.before, NameQuery(last.project, last.name)) = <<>>
    /\ last.index = GetLastIndex(last.before) + 1
    /\ FindIndex(database, last.project, last.name).index = last.index

\* C10: when Database.add_entry(index, record) has returned, the staging
\* table is empty, the main table holds the record under that index (once),
\* and the table at the database path equals the main table.
C10_AddEntryPersists ==
    last.op = "add_entry" =>
        /\ tmp_database = <<>>
        /\ \E i \in DOMAIN database :
            /\ database[i].index = last.index
            /\ KeyOf(database[i]) = <<last.project, last.name>>
            /\ database[i]["STAGE"] = "Unfinished"
            /\ \A j \in DOMAIN database :
                database[j].index = last.index => j = i
        /\ disk = database

\* add_entry returned in a ledger whose main table had differed from the
\* stored one (a modify_entry had not been saved)
C10_Witness ==
    /\ last.op = "add_entry"
    /\ last.before # last.disk_before
    /\ Len(database) >= 2
    /\ disk = database

----------------------------------------------------------------------------
(* The sequencer *)

\* C3: Pipeline(s1, ..., sn) runs its steps in list order, each at most
\* once and, when every step has called its continuation and the call has
\* returned, each exactly once; every step gets the context the Pipeline
\* was called with; s(k+1) starts only while sk waits in its call of
\* next_step.
C3_StepsInListOrder ==
    /\ Len(steps_history) <= Len(queue)
    /\ \A k \in DOMAIN steps_history :
        /\ steps_history[k].kind = queue[k].kind
        /\ steps_history[k].pos = k
        /\ steps_history[k].level = 0
        /\ steps_history[k].context = TheContext
    /\ \A i \in DOMAIN stack :
        /\ stack[i].pos = i
        /\ stack[i].step = queue[i]
        /\ i < Len(stack) => stack[i].phase = "wait_next"
    /\ ctl = "body" => Len(stack) = Len(steps_history) + 1
    /\ ctl = "returned" /\ cur.pos = Len(queue) + 1 =>
        Len(steps_history) = Len(queue)

\* a pipeline of MaxSteps steps, not all of one kind, has returned after
\* every step called its continuation
C3_Witness ==
    /\ ctl = "returned"
    /\ Len(queue) = MaxSteps
    /\ cur.pos = Len(queue) + 1
    /\ Len(steps_history) = Len(queue)
    /\ \E i, j \in DOMAIN queue : queue[i].kind # queue[j].kind

\* the step logged at position k returns without calling next_step:
\* WriteRawParameters when it does not raise, PrepareMDOptions for a
\* software that is neither gromacs nor amber
ReturnsSilently(k) ==
    /\ raised = NoExc \/ raised.pos # k
    /\ \/ steps_history[k].kind = "WriteRawParameters"
       \/ /\ steps_history[k].kind = "PrepareMDOptions"
          /\ env.SOFTWARE \notin Supported

\* C4: when step sk returns without calling its continuation, no step after
\* sk is executed, no error is raised, and control goes back through the
\* waiting steps to the caller of the Pipeline.
C4_SilentHalt ==
    \A k \in DOMAIN steps_history :
        ReturnsSilently(k) =>
            /\ Len(steps_history) = k
            /\ raised = NoExc /\ exc = NoExc
            /\ \/ ctl = "body" /\ Len(stack) = k
               \/ ctl = "ret" /\ Len(stack) < k
                    /\ \A i \in DOMAIN stack : stack[i].phase = "wait_next"
               \/ ctl = "returned" /\ stack = <<>>

\* the Pipeline call has returned after its second step returned without
\* calling next_step, with steps left
C4_Witness ==
    /\ ctl = "returned"
    /\ Len(steps_history) = 2
    /\ Len(queue) > 2
    /\ ReturnsSilently(2)

\* C5: the exception that leaves the Pipeline call is the one the step
\* raised (no step in the chain replaces it), and the raising step is the
\* last step that ran.
C5_ExceptionLeavesUnchanged ==
    raised # NoExc =>
        /\ exc = raised
        /\ Len(steps_history) = raised.pos
        /\ ctl \in {"exc", "raised"}

----------------------------------------------------------------------------
(* The polling loop *)

NonTerminal == {"RUNNING", "PENDING"}

\* a status that parse_data returned and that ends the watch
Terminal(status) == status \notin NonTerminal \cup {"None", "raise", "ERROR"}

\* the watch has left its loop and gone on to next_step
WatchLeft == wq.next_calls > 0

\* C6: with n non-terminal polls followed by a terminal one, the watch has
\* done n download + check cycles when it issues poll n + 1, does one more
\* cycle on the terminal poll and leaves the loop; it has then issued n + 1
\* queries and slept n times, and it does not sleep after the terminal poll.
C6_PollCycles ==
    LET n == Len(wq.polls) - 1
    IN  /\ \A i \in 1 .. n : wq.polls[i] \in NonTerminal
        /\ stack # <<>> /\ ctl = "step" /\ Top.phase = "loop" =>
            /\ wq.cycles = Len(wq.polls)
            /\ wq.sleeps = Len(wq.polls)
            /\ wq.downloads = Len(wq.polls)
        /\ n >= 0 /\ Terminal(wq.polls[n + 1]) =>
            /\ wq.sleeps = n
            /\ wq.cycles \in {n, n + 1}
            /\ wq.downloads \in {n, n + 1}
            /\ WatchLeft =>
                wq.cycles = n + 1 /\ wq.downloads = n + 1

\* one non-terminal poll, then a terminal one, and the watch has left
C6_Witness ==
    /\ WatchLeft
    /\ Len(wq.polls) = 2
    /\ wq.polls[1] \in NonTerminal
    /\ Terminal(wq.polls[2])
    /\ wq.cycles = 2 /\ wq.sleeps = 1

\* a status query has just returned a non-success exit code
QueryFails ==
    /\ Len(wq'.polls) = Len(wq.polls) + 1
    /\ wq'.polls[Len(wq'.polls)] = "ERROR"

\* C7: a status query with a non-success exit code ends the loop in that
\* pass: the pass downloads no logs, checks no run, leaves the ledger as it
\* is and does not sleep; no status query follows it.
C7_FailedQueryHalts ==
    /\ [](\A i \in DOMAIN wq.polls :
            wq.polls[i] = "ERROR" =>
                /\ i = Len(wq.polls)
                /\ wq.downloads = i - 1
                /\ wq.cycles = i - 1
                /\ wq.sleeps = i - 1)
    /\ [][QueryFails =>
            /\ UNCHANGED <<database, tmp_database, disk>>
            /\ wq'.downloads = wq.downloads
            /\ wq'.cycles = wq.cycles
            /\ wq'.sleeps = wq.sleeps
            /\ ctl' = "step" /\ stack'[Len(stack')].phase = "after"]_vars

\* the second query failed, after one full pass
C7_Witness ==
    /\ Len(wq.polls) = 2
    /\ wq.polls[2] = "ERROR"
    /\ wq.cycles = 1
    /\ WatchLeft

\* C8: after a failure in the loop (a non-success exit code, or an output
\* parse_data cannot read) watch_queue_routine does not call next_step.
C8_FailureEndsRun ==
    wq.failed \/ (wq.polls # <<>> /\ wq.polls[Len(wq.polls)] = "raise")
        => wq.next_calls = 0

----------------------------------------------------------------------------
(* Submission *)

\* remote_run_routine wrote the job id last
Submitted ==
    /\ last.op = "modify_entry"
    /\ last.column = "PID"
    /\ last.by = "remote_run_routine"

\* C9: when remote_run_routine has completed, the fourth word of the sbatch
\* output is the SLURM PID of the context and the PID of every row of the
\* current project; the rows of other projects are as they were, and no row
\* changed in another column.
C9_JobIdRecorded ==
    /\ [](Submitted =>
            /\ slurm.PID = last.value
            /\ Len(database) = Len(last.before)
            /\ \A i \in DOMAIN database :
                IF database[i]["PROJECT NAME"] = env.PROJECT_NAME
                THEN database[i] = [last.before[i] EXCEPT !["PID"] = last.value]
                ELSE database[i] = last.before[i])
    /\ [][Submitted' /\ ~Submitted =>
            /\ Len(process'.stdout) >= 4
            /\ last'.value = process'.stdout[4]
            /\ last'.project = env.PROJECT_NAME]_vars

\* the job id was recorded in a ledger holding rows of the current project
\* and rows of another project with another job id
C9_Witness ==
    /\ Submitted
    /\ \E i, j \in DOMAIN database :
        /\ database[i]["PROJECT NAME"] = env.PROJECT_NAME
        /\ database[i]["PID"] = last.value
        /\ last.before[i]["PID"] # last.value
        /\ database[j]["PROJECT NAME"] # env.PROJECT_NAME
        /\ database[j]["PID"] # last.value

----------------------------------------------------------------------------
(* The Database operations one by one *)

\* the row is one the last call's query selects: the project and, where the
\* query names a simulation, the simulation name
Selected(row) ==
    /\ row["PROJECT NAME"] = last.project
    /\ last.name # <<>> => row["SIMULATION NAME"] = last.name

\* C11: modify_entry((column, value), query) sets the column to the value in
\* the rows that match every key of the query; these rows keep their other
\* columns, the other rows are unchanged, no row is added or removed; the
\* staging table and the stored table are not touched.  The query may
\* match no row or several.
C11_ModifyEntryFrame ==
    last.op = "modify_entry" =>
        /\ DOMAIN database = DOMAIN last.before
        /\ \A i \in DOMAIN database :
            IF Selected(last.before[i])
            THEN /\ database[i][last.column] = last.value
                 /\ \A c \in (DOMAIN database[i]) \ {last.column} :
                        database[i][c] = last.before[i][c]
                 /\ DOMAIN database[i] = DOMAIN last.before[i]
            ELSE database[i] = last.before[i]
        /\ disk = last.disk_before
        /\ tmp_database = <<>>

\* modify_entry changed the PID in one row and left the other row, which
\* its query did not select
C11_Witness ==
    /\ last.op = "modify_entry"
    /\ \E i, j \in DOMAIN database :
        /\ Selected(last.before[i])
        /\ last.before[i][last.column] # last.value
        /\ database[i][last.column] = last.value
        /\ ~Selected(last.before[j])
        /\ database[j][last.column] # last.value

\* the positions of the selected rows
SelectedRows == {i \in DOMAIN database : Selected(database[i])}

\* C12: find_entries(query) returns the rows in which every queried column
\* has the queried value, each once, in table order, and leaves the main
\* table, the staging table and the stored table as they were.
C12_FindEntriesExact ==
    last.op = "find_entries" =>
        /\ Len(last.found) = Cardinality(SelectedRows)
        /\ \A k \in DOMAIN last.found :
            \E i \in SelectedRows :
                /\ Cardinality({j \in SelectedRows : j <= i}) = k
                /\ last.found[k] = database[i]
        /\ database = last.before
        /\ disk = last.disk_before
        /\ tmp_database = <<>>

\* find_entries returned two rows of a ledger of two or more rows, first
\* and second different
C12_Witness ==
    /\ last.op = "find_entries"
    /\ Len(database) >= 2
    /\ Len(last.found) = 2
    /\ last.found[1] # last.found[2]

\* C13: save is idempotent.  After add_entry (which saves) or save, one more
\* save leaves the main table, the empty staging table and the stored
\* table as they are.
C13_SaveIdempotent ==
    last.op \in {"add_entry", "save"} =>
        /\ tmp_database = <<>>
        /\ Save(TheDb).database = database
        /\ Save(TheDb).tmp_database = tmp_database
        /\ Save(TheDb).disk = disk
        /\ disk = database

\* save was called on a ledger that was saved already and holds rows, and
\* changed nothing
C13_Witness ==
    /\ last.op = "save"
    /\ last.before # <<>>
    /\ last.before = last.disk_before
    /\ database = last.before
    /\ disk = last.disk_before

----------------------------------------------------------------------------
(* CheckProgress *)

\* the body of a CheckProgress step runs in this step of the machine
CheckProgressRuns ==
    /\ ctl = "body"
    /\ stack # <<>>
    /\ Top.step.kind = "CheckProgress"
    /\ ctl' # "body"

\* the ledger row of the simulation whose log the running step has read
OwnRow(row) == KeyOf(row) = <<env.PROJECT_NAME, Top.step.a.name>>

\* C14: on a row staged Unfinished, with both markers in the log,
\* CheckProgress writes Finished when the steps done equal the declared
\* total and Unfinished otherwise, into that row only; it saves the ledger
\* (the stored table equals the main table) and then calls next_step.
C14_CheckProgressStage ==
    [][(/\ CheckProgressRuns
        /\ \E i \in DOMAIN database :
            OwnRow(database[i]) /\ database[i]["STAGE"] = "Unfinished"
        /\ ExtractNsteps(Top.step.a.log) >= 0
        /\ CountSteps(Top.step.a.log) >= 0)
       => /\ DOMAIN database' = DOMAIN database
          /\ \A i \in DOMAIN database :
                IF OwnRow(database[i])
                THEN database'[i] =
                        [database[i] EXCEPT !["STAGE"] =
                            IF CountSteps(Top.step.a.log)
                                 = ExtractNsteps(Top.step.a.log)
                            THEN "Finished" ELSE "Unfinished"]
                ELSE database'[i] = database[i]
          /\ disk' = database'
          /\ tmp_database' = <<>>
          /\ ctl' = "call"
          /\ cur'.queue = Top.rest
          /\ stack'[Len(stack')].phase = "wait_next"]_vars

\* CheckProgress has just marked an Unfinished row Finished, saved a ledger
\* that held unsaved changes, and called next_step
C14_Witness ==
    /\ ctl = "call"
    /\ stack # <<>>
    /\ Top.step.kind = "CheckProgress"
    /\ Top.phase = "wait_next"
    /\ last.op = "save" /\ last.by = "CheckProgress"
    /\ last.before # last.disk_before
    /\ disk = database
    /\ \E i \in DOMAIN database :
        /\ KeyOf(database[i]) = <<last.project, last.name>>
        /\ last.before[i]["STAGE"] = "Unfinished"
        /\ database[i]["STAGE"] = "Finished"

\* C15: when the log lacks the line of the declared total or the line of
\* the steps done, CheckProgress raises, leaves the main, the staging and
\* the stored table as they are, and does not call next_step.
C15_MissingMarkerRaises ==
    [][(/\ CheckProgressRuns
        /\ Top.step.a.log.nsteps < 0 \/ Top.step.a.log.stat < 0)
       => /\ ctl' = "exc"
          /\ exc'.type # "none"
          /\ UNCHANGED <<database, tmp_database, disk>>]_vars

C28_RoutinesPersist ==
    [][(/\ ctl = "ret"
        /\ stack # <<>>
        /\ Top.step.kind \in {"run_routine", "remote_run_routine", "find_pid",
                              "check_runs_routine", "download_finished"}
        /\ stack' = Pop)
       => disk' = database']_vars

----------------------------------------------------------------------------
(* watch_queue_routine: the status read from the output of sacct *)

\* a pass of the loop whose status query exits with code 0 runs in this step
PollRuns ==
    /\ ctl = "step"
    /\ stack # <<>>
    /\ Top.step.kind = "watch_queue_routine"
    /\ Top.phase = "loop"
    /\ process'.returncode = 0

\* every line after the header splits into four fields
FourFields(lines) == \A i \in 2..Len(lines) : Len(lines[i]) = 4

\* the pass takes the status for unparsable: it breaks out of the loop,
\* having downloaded no log, run no check and written nothing to the ledger
PollHalts ==
    /\ wq'.polls = Append(wq.polls, "None")
    /\ wq'.failed
    /\ ctl' = "step"
    /\ stack' = SetPhase("after")
    /\ wq'.downloads = wq.downloads
    /\ wq'.cycles = wq.cycles
    /\ UNCHANGED <<database, tmp_database, disk>>

\* the pass acts on the given status: the final pipeline on a status other
\* than RUNNING and PENDING, the pipeline before the sleep otherwise
PollActsOn(status) ==
    /\ wq'.polls = Append(wq.polls, status)
    /\ ctl' = "call"
    /\ cur'.queue = WatchJobs
    /\ stack' = SetPhase(IF status \in {"RUNNING", "PENDING"}
                         THEN "cycle" ELSE "final")

\* C29: the polling loop acts on the State field of the third line of the
\* status output; whenever the output has fewer than three lines the status
\* is None and the loop halts without downloading logs or checking
\* completion.
C29_ThirdLineState ==
    [][PollRuns
       => /\ (Len(process'.stdout) >= 3 /\ FourFields(process'.stdout))
              => PollActsOn(process'.stdout[3][2])
          /\ Len(process'.stdout) < 3 => PollHalts]_vars

\* C29, for outputs whose lines after the header all split into four
\* fields: the loop acts on the State field of the third line, and with
\* fewer than three lines the status is None and the loop halts without
\* downloading logs or checking completion.
C29_ThirdLineStateOfTable ==
    [][(PollRuns /\ FourFields(process'.stdout))
       => IF Len(process'.stdout) >= 3
          THEN PollActsOn(process'.stdout[3][2])
          ELSE PollHalts]_vars

\* the loop has just halted on an output of two well-formed lines whose
\* second line reports PENDING
C29_Witness ==
    /\ ctl = "step"
    /\ stack # <<>>
    /\ Top.step.kind = "watch_queue_routine"
    /\ Top.phase = "after"
    /\ process.returncode = 0
    /\ process.stdout = <<SacctHeader, SacctRow("PENDING")>>
    /\ wq.polls # <<>>
    /\ wq.polls[Len(wq.polls)] = "None"
    /\ wq.downloads = 0

\* the last status query reported a status other than RUNNING and PENDING
JobEnded == wq.polls # <<>> /\ Terminal(wq.polls[Len(wq.polls)])

----------------------------------------------------------------------------
(* run_routine: the ledger rows and the run script it leaves *)

\* run_routine has been run to its end n times
RunRoutineEnded(n) == Len(run_ledgers) >= 2 * n

\* the last thing run_routine did was to end, with a software for which
\* PrepareMDOptions calls next_step, so that its RunMD steps have run
RunRoutineJustEnded ==
    /\ run_ledgers # <<>>
    /\ run_ledgers[Len(run_ledgers)].at = "end"
    /\ env.SOFTWARE \in Supported

\* the rows of the project in a table
ProjectRows(table) == FindEntries(table, ProjectQuery(env.PROJECT_NAME))

RECURSIVE SumNRuns(_)
SumNRuns(run_configs) ==
    IF run_configs = <<>> THEN 0
    ELSE Head(run_configs).NRUNS + SumNRuns(Tail(run_configs))

\* C16: after run_routine (its RunMD steps run) on a ledger without a row
\* of the project, the project has as many rows as the run configs have
\* repetitions in all, and every one of them is staged Unfinished.
C16_OneRowPerRepetition ==
    (/\ RunRoutineEnded(1)
     /\ env.SOFTWARE \in Supported
     /\ ProjectRows(run_ledgers[1].database) = <<>>)
    => LET rows == ProjectRows(run_ledgers[2].database)
       IN  /\ Len(rows) = SumNRuns(sim.run_configs)
           /\ \A i \in DOMAIN rows : rows[i]["STAGE"] = "Unfinished"

\* the run script
Script == data_dir[MdRun]

\* the position in run_configs of the stage a block of the script runs
StageOf(block) ==
    CHOOSE k \in DOMAIN sim.run_configs :
        sim.run_configs[k].CONFIG_FILE = block.config

\* C17: when run_routine has ended, md.run holds one block for every
\* repetition of every stage and nothing else; the blocks stand in the
\* order of the stage INDEX and, within a stage, of the repetition number;
\* a block names the config file and the starting coordinates of its stage.
C17_ScriptBlocks ==
    RunRoutineJustEnded
    => /\ MdRun \in DOMAIN data_dir
       /\ Len(Script) = SumNRuns(sim.run_configs)
       /\ \A k \in DOMAIN sim.run_configs :
            \A i \in 0 .. sim.run_configs[k].NRUNS - 1 :
                \E p \in DOMAIN Script :
                    /\ Script[p] =
                         [config |-> sim.run_configs[k].CONFIG_FILE,
                          coordinates |->
                              sim.run_configs[k].START_COORDINATES_FILE,
                          name |-> SimulationName(i, sim.run_configs[k].SIM_TYPE),
                          software |-> env.SOFTWARE]
                    /\ \A q \in DOMAIN Script : Script[q] = Script[p] => q = p
       /\ \A p, q \in DOMAIN Script :
            p < q =>
                LET ip == sim.run_configs[StageOf(Script[p])].INDEX
                    iq == sim.run_configs[StageOf(Script[q])].INDEX
                IN  \/ ip < iq
                    \/ ip = iq /\ Script[p].name[1] < Script[q].name[1]

\* run_routine, run a second time over a script it wrote before, has left
\* the three blocks of a stage of two repetitions and a stage of one
C17_Witness ==
    /\ RunRoutineJustEnded
    /\ RunRoutineEnded(2)
    /\ Len(sim.run_configs) = 2
    /\ Len(Script) = 3
    /\ RenamesOf(MdRun) # <<>>

\* in the script every block of a later stage reads coordinates that a
\* block of the stage before writes, and the blocks of the first stage
\* read coordinates that no block writes
ScriptChains ==
    \A p \in DOMAIN Script :
        LET k == StageOf(Script[p])
        IN  IF k = 1
            THEN \A q \in DOMAIN Script :
                    Script[p].coordinates #
                        OutputCoordinates(Script[q].name, env.SOFTWARE)
            ELSE \E q \in DOMAIN Script :
                    /\ StageOf(Script[q]) = k - 1
                    /\ Script[p].coordinates =
                         OutputCoordinates(Script[q].name, env.SOFTWARE)

\* the run configs chain: every stage but the first names the coordinates
\* a repetition of the stage before it leaves, the first names coordinates
\* that no repetition leaves
ConfigsChain ==
    /\ \A k \in DOMAIN sim.run_configs :
        \A i \in 0 .. sim.run_configs[k].NRUNS - 1 :
            sim.run_configs[1].START_COORDINATES_FILE #
                OutputCoordinates(
                    SimulationName(i, sim.run_configs[k].SIM_TYPE),
                    env.SOFTWARE)
    /\ \A k \in DOMAIN sim.run_configs :
        k > 1 =>
            \E i \in 0 .. sim.run_configs[k - 1].NRUNS - 1 :
                sim.run_configs[k].START_COORDINATES_FILE =
                    OutputCoordinates(
                        SimulationName(i, sim.run_configs[k - 1].SIM_TYPE),
                        env.SOFTWARE)

\* C18 as the specification words it: whatever the run configs name, the
\* script run_routine leaves chains its stages.
C18_StagesChain == RunRoutineJustEnded => ScriptChains

\* C18: a block reads the START_COORDINATES_FILE its stage's run config
\* names; the script chains its stages when the run configs do.
C18_ChainFollowsConfigs ==
    RunRoutineJustEnded
    => /\ \A p \in DOMAIN Script :
            Script[p].coordinates =
                sim.run_configs[StageOf(Script[p])].START_COORDINATES_FILE
       /\ ConfigsChain => ScriptChains

\* run_routine has left a script of two chained stages
C18_Witness ==
    /\ RunRoutineJustEnded
    /\ Len(sim.run_configs) = 2
    /\ ConfigsChain
    /\ ScriptChains
    /\ \E p \in DOMAIN Script : StageOf(Script[p]) = 2

\* C19: run_routine run twice in succession leaves the ledger as the first
\* of the two runs left it: the same rows under the same index labels with
\* the same values, in the main table.
C19_RunRoutineIdempotent ==
    RunRoutineEnded(2) => run_ledgers[4].database = run_ledgers[2].database

\* the second run_routine has ended on a ledger the first one had changed,
\* overwriting a row of an earlier campaign and adding a new one
C19_Witness ==
    /\ RunRoutineEnded(2)
    /\ run_ledgers[1].database # <<>>
    /\ Len(run_ledgers[2].database) > Len(run_ledgers[1].database)
    /\ \E i \in DOMAIN run_ledgers[1].database :
        run_ledgers[2].database[i] # run_ledgers[1].database[i]
    /\ disk = database

----------------------------------------------------------------------------
(* run_routine without a Slurm config *)

\* the positions of the rows the n-th run_routine added or wrote anew
RowsAdded(n) ==
    LET before == run_ledgers[2 * n - 1].database
        after == run_ledgers[2 * n].database
    IN  {i \in DOMAIN after : i \notin DOMAIN before \/ after[i] # before[i]}

\* C23: without a Slurm config run_routine writes md.run and no md.slurm,
\* runs no RunSLURM step and no remote command, and every row it adds has
\* None as remote address, remote directory and storage directory and -1
\* as job id.
C23_LocalScriptsOnly ==
    ~slurm.present
    => /\ MdSlurm \notin DOMAIN data_dir
       /\ \A i \in DOMAIN steps_history : steps_history[i].kind # "RunSLURM"
       /\ process = [returncode |-> 0, stdout |-> <<>>]
       /\ RunRoutineJustEnded
            => MdRun \in DOMAIN data_dir /\ data_dir[MdRun] # <<>>
       /\ \A n \in 1 .. Len(run_ledgers) \div 2 :
            \A i \in RowsAdded(n) :
                LET row == run_ledgers[2 * n].database[i]
                IN  /\ row["REMOTE ADRESS"] = "None"
                    /\ row["REMOTE DIR"] = "None"
                    /\ row["LUSTRE DIR"] = "None"
                    /\ row["PID"] = "-1"

\* without a Slurm config run_routine has ended, having written md.run and
\* added a row and overwritten another
C23_Witness ==
    /\ ~slurm.present
    /\ RunRoutineJustEnded
    /\ MdRun \in DOMAIN data_dir
    /\ \E i, j \in RowsAdded(1) :
        /\ i \in DOMAIN run_ledgers[1].database
        /\ j \notin DOMAIN run_ledgers[1].database

----------------------------------------------------------------------------
(* SimulationMenager.topol_configs *)

\* C24: the topol configs SimulationMenager holds are in ascending order of
\* INDEX in every state, after construction and after MergeTopologies has
\* appended the merged topol config.
C24_TopolConfigsSorted ==
    \A i, j \in DOMAIN sim.topol_configs :
        i < j => sim.topol_configs[i].INDEX <= sim.topol_configs[j].INDEX

----------------------------------------------------------------------------
(* make_absolute and the file checks of MDContext.__init__ *)

\* the path of a file under a directory
Under(directory, file) == [dir |-> directory, name |-> file.name]

\* C21: for a file named relatively make_absolute returns the path under
\* the root directory when the file exists there, else under the parameter
\* directory, else under the data directory, and raises FileNotFoundError
\* (the constructor stops) when it exists under none; the paths that exist
\* and the ledger are left as they are.
C21_FirstExistingDirectory ==
    [][\A i \in Len(mdcontext.calls) + 1 .. Len(mdcontext'.calls) :
        LET call == mdcontext'.calls[i]
        IN  call.file.dir = ""
            => /\ dirs' = dirs
               /\ mdcontext'.ledger = mdcontext.ledger
               /\ IF Under("root", call.file) \in dirs
                  THEN call.ok /\ call.path = Under("root", call.file)
                  ELSE IF Under("param", call.file) \in dirs
                  THEN call.ok /\ call.path = Under("param", call.file)
                  ELSE IF Under("data", call.file) \in dirs
                  THEN call.ok /\ call.path = Under("data", call.file)
                  ELSE /\ ~call.ok
                       /\ i = Len(mdcontext'.calls)
                       /\ mdcontext'.at = "raised"
                       /\ mdcontext'.error = "FileNotFoundError"]_vars

\* make_absolute has found under the parameter directory a file that is
\* also under the data directory, and has raised on a later file
C21_Witness ==
    /\ mdcontext.error = "FileNotFoundError"
    /\ \E i \in DOMAIN mdcontext.calls :
        LET call == mdcontext.calls[i]
        IN  /\ call.file.dir = ""
            /\ Under("root", call.file) \notin dirs
            /\ Under("data", call.file) \in dirs
            /\ call.path = Under("param", call.file)
    /\ LET call == mdcontext.calls[Len(mdcontext.calls)]
       IN  call.file.dir = "" /\ ~call.ok

\* a file a config names exists: under its absolute path, or under one of
\* the three directories
Exists(file) ==
    IF file.dir # "" THEN file \in dirs
    ELSE \E d \in {"root", "param", "data"} : Under(d, file) \in dirs

\* C22: when the ledger has been opened or created, or the constructor has
\* returned, the FILE of every topol config, the CONFIG_FILE of every run
\* config and the START_COORDINATES_FILE of the stage of the lowest INDEX
\* exist.
C22_MissingFileStopsConstruction ==
    (mdcontext.ledger # "unopened" \/ mdcontext.at = "constructed")
    => /\ \A i \in DOMAIN mdcontext.topol_configs :
            Exists(mdcontext.topol_configs[i].FILE)
       /\ \A i \in DOMAIN mdcontext.run_configs :
            /\ Exists(mdcontext.run_configs[i].CONFIG_FILE)
            /\ (\A j \in DOMAIN mdcontext.run_configs :
                    mdcontext.run_configs[i].INDEX
                        <= mdcontext.run_configs[j].INDEX)
               => Exists(mdcontext.run_configs[i].START_COORDINATES_FILE)

----------------------------------------------------------------------------
(* Parser *)

\* the typed records from_config has returned
RecordCount ==
    Len(parser.records.environment) + Len(parser.records.database)
    + Len(parser.records.topol) + Len(parser.records.run)
    + Len(parser.records.slurm)

\* C25: from a config file of N sections from_config returns N typed
\* records in all, when it returns; it raises when the name of a section
\* starts with none of ENVIRONMENT, SLURM, RUNMD, TOPOL, DATABASE.
C25_OneRecordPerSection ==
    /\ parser.at = "returned" => RecordCount = Len(parser.file)
    /\ (/\ parser.at \in {"returned", "raised"}
        /\ \E i \in DOMAIN parser.file :
                FindSection(Upper(parser.file[i].name)) = "KeyError")
       => parser.at = "raised"

\* the section lacks a field that is not optional, other than INDEX
LacksField(section) ==
    LET class == FindSection(section.name)
    IN  /\ class # "KeyError"
        /\ \E i \in DOMAIN TypeHints(class) :
            LET field == TypeHints(class)[i]
            IN  /\ ~field.optional
                /\ field.name # "INDEX"
                /\ field.name \notin DOMAIN section.options

\* C26: when a section of config_data lacks a field that is not optional,
\* other than INDEX, from_config raises and returns no record.
C26_MissingFieldRaises ==
    (/\ parser.at \in {"returned", "raised"}
     /\ \E i \in DOMAIN parser.config_data :
            LacksField(parser.config_data[i]))
    => parser.at = "raised" /\ RecordCount = 0

----------------------------------------------------------------------------
(* make_duplicate *)

\* C20: starting from run.top without a backup, make_duplicate(run.top)
\* followed each time by a new run.top names its backups run.top.bck1,
\* run.top.bck2, ... in that order; the name it renames to is never in the
\* directory already, and every backup keeps what was written into it.
C20_BackupSuffixes ==
    \A i \in DOMAIN RenamesOf(RunTop) :
        LET r == RenamesOf(RunTop)[i]
        IN  /\ r.dst = DuplicatePath(RunTop, i)
            /\ ~r.existed
            /\ r.dst \in DOMAIN data_dir
            /\ data_dir[r.dst] = Written(i)

\* run.top has been set aside three times, with none, one and two backups
\* in the directory, and written a fourth time
C20_Witness ==
    /\ Len(RenamesOf(RunTop)) = 3
    /\ RunTop \in DOMAIN data_dir
    /\ data_dir[RunTop] = Written(4)
    /\ {DuplicatePath(RunTop, i) : i \in 1 .. 3} \subseteq DOMAIN data_dir

====
